---- MODULE Spec2Model ----
(***************************************************************************)
(* Model of the json library (tokenizer, recursive-descent parser, node    *)
(* model, serializer).  Text is a sequence of one-character strings, and   *)
(* every index is 0-based as in the C++ source.                            *)
(***************************************************************************)
EXTENDS Integers, Sequences, FiniteSets, TLC

\* ------------------------------------------------------------------------
\* Characters and std::string helpers
\* ------------------------------------------------------------------------

NUL == "NUL"

BACKSLASH == "\\"

SQUOTE == "'"

DQUOTE == "\""

NEWLINE == "\n"

\* source[i]; reading source[size()] yields the terminating '\0'
CharAt(source, i) == IF i >= 0 /\ i < Len(source) THEN source[i + 1] ELSE NUL

\* std::string::substr(pos, n); a negative n is the wrapped size_t, i.e. "to the end"
Substr(source, pos, n) ==
    IF n < 0 \/ pos + n > Len(source)
    THEN SubSeq(source, pos + 1, Len(source))
    ELSE SubSeq(source, pos + 1, pos + n)

\* std::string::find(ch, pos); -1 stands for npos
RECURSIVE FindChar(_, _, _)
FindChar(source, ch, pos) ==
    IF pos >= Len(source) THEN -1
    ELSE IF source[pos + 1] = ch THEN pos
    ELSE FindChar(source, ch, pos + 1)

isnewline(chr) == chr = "\n" \/ chr = "\r"

isspace(chr) == chr \in {" ", "\t", "\n", "\r"}

isdigit(chr) == chr \in {"0", "1", "2", "3", "4", "5", "6", "7", "8", "9"}

\* ------------------------------------------------------------------------
\* Tokenizer
\* ------------------------------------------------------------------------

\* a variant that knows the double quote only
is_quote_double(chr) == chr = DQUOTE

\* a quoted string opens with either quote character
is_quote(chr) == chr = DQUOTE \/ chr = SQUOTE

token_t(value, type, line_number) ==
    [value |-> value, type |-> type, line_number |-> line_number]

RECURSIVE skip_quoted_scan(_, _, _)
skip_quoted_scan(source, quote, index) ==
    IF index >= Len(source) THEN index
    ELSE IF /\ CharAt(source, index) = quote
            /\ \/ CharAt(source, index - 1) # BACKSLASH
               \/ /\ index > 1
                  /\ CharAt(source, index - 2) = BACKSLASH
                  /\ CharAt(source, index - 3) # BACKSLASH
         THEN index + 1
    ELSE skip_quoted_scan(source, quote, index + 1)

skip_quoted_string(source, index) ==
    skip_quoted_scan(source, CharAt(source, index), index + 1)

RECURSIVE skip_single_line_comment(_, _)
skip_single_line_comment(source, index) ==
    IF index >= Len(source) THEN index
    ELSE IF isnewline(CharAt(source, index)) THEN index
    ELSE skip_single_line_comment(source, index + 1)

RECURSIVE skip_multi_line_comment(_, _)
skip_multi_line_comment(source, index) ==
    IF index >= Len(source) THEN index
    ELSE IF /\ CharAt(source, index) = "*"
            /\ index + 1 < Len(source)
            /\ CharAt(source, index + 1) = "/"
         THEN index + 2
    ELSE skip_multi_line_comment(source, index + 1)

\* returns the new index and the updated line counter
RECURSIVE skip_whitespaces(_, _, _)
skip_whitespaces(source, index, line_number) ==
    IF index >= Len(source) THEN [index |-> index, line_number |-> line_number]
    ELSE LET ln == IF isnewline(CharAt(source, index)) THEN line_number + 1 ELSE line_number
         IN  IF ~isspace(CharAt(source, index))
             THEN [index |-> index, line_number |-> ln]
             ELSE skip_whitespaces(source, index + 1, ln)

RECURSIVE find_next_whitespace(_, _)
find_next_whitespace(source, index) ==
    LET slength == Len(source) IN
    IF index >= slength THEN slength
    ELSE IF is_quote(CharAt(source, index))
         THEN find_next_whitespace(source, skip_quoted_string(source, index))
    ELSE IF index + 1 < slength /\ CharAt(source, index) = "/" /\ CharAt(source, index + 1) = "/"
         THEN find_next_whitespace(source, skip_single_line_comment(source, index + 2))
    ELSE IF index + 1 < slength /\ CharAt(source, index) = "/" /\ CharAt(source, index + 1) = "*"
         THEN find_next_whitespace(source, skip_multi_line_comment(source, index + 2))
    ELSE IF isspace(CharAt(source, index)) THEN index
    ELSE find_next_whitespace(source, index + 1)

RECURSIVE extract_number_scan(_, _)
extract_number_scan(source, index) ==
    LET slength == Len(source) IN
    IF index >= slength THEN index
    ELSE IF isdigit(CharAt(source, index)) \/ CharAt(source, index) = "."
         THEN extract_number_scan(source, index + 1)
    ELSE IF (CharAt(source, index) = "e" \/ CharAt(source, index) = "E") /\ index + 1 < slength
         THEN IF \/ CharAt(source, index + 1) = "+"
                 \/ CharAt(source, index + 1) = "-"
                 \/ isdigit(CharAt(source, index + 1))
              THEN extract_number_scan(source, index + 2)
              ELSE index
    ELSE index

\* a variant that does not step over the sign
extract_number_unsigned(source, index) == extract_number_scan(source, index)

extract_number(source, index) ==
    extract_number_scan(source, IF CharAt(source, index) = "-" THEN index + 1 ELSE index)

\* one iteration of the loop of process_token: the index it moves to and the
\* tokens it emits
process_token_step(source, index, line_number) ==
    LET slength == Len(source)
        c       == CharAt(source, index)
    IN
    IF index + 1 < slength /\ c = "/" /\ CharAt(source, index + 1) = "/"
         THEN LET end == skip_single_line_comment(source, index + 2)
              IN  [index |-> end, tokens |-> <<token_t(Substr(source, index, end - index), "COMMENT", line_number)>>]
    ELSE IF index + 1 < slength /\ c = "/" /\ CharAt(source, index + 1) = "*"
         THEN LET end == skip_multi_line_comment(source, index + 2)
              IN  [index |-> end, tokens |-> <<token_t(Substr(source, index, end - index), "COMMENT", line_number)>>]
    ELSE IF is_quote(c)
         THEN LET end == skip_quoted_string(source, index)
              IN  [index |-> end, tokens |-> <<token_t(Substr(source, index + 1, end - index - 2), "STRING", line_number)>>]
    ELSE IF c = ","
         THEN [index |-> index + 1, tokens |-> <<token_t(<<",">>, "COMMA", line_number)>>]
    ELSE IF c = "t" /\ index + 3 < slength /\ Substr(source, index, 4) = <<"t", "r", "u", "e">>
         THEN [index |-> index + 4, tokens |-> <<token_t(<<"t", "r", "u", "e">>, "BOOLEAN", line_number)>>]
    ELSE IF c = "f" /\ index + 4 < slength /\ Substr(source, index, 5) = <<"f", "a", "l", "s", "e">>
         THEN [index |-> index + 5, tokens |-> <<token_t(<<"f", "a", "l", "s", "e">>, "BOOLEAN", line_number)>>]
    ELSE IF c = "n" /\ index + 3 < slength /\ Substr(source, index, 4) = <<"n", "u", "l", "l">>
         THEN [index |-> index + 4, tokens |-> <<token_t(<<"n", "u", "l", "l">>, "NULL", line_number)>>]
    ELSE IF c = "}"
         THEN [index |-> index + 1, tokens |-> <<token_t(<<"}">>, "CURLY_CLOSE", line_number)>>]
    ELSE IF c = "{"
         THEN [index |-> index + 1, tokens |-> <<token_t(<<"{">>, "CURLY_OPEN", line_number)>>]
    ELSE IF c = "]"
         THEN [index |-> index + 1, tokens |-> <<token_t(<<"]">>, "BRACKET_CLOSE", line_number)>>]
    ELSE IF c = "["
         THEN [index |-> index + 1, tokens |-> <<token_t(<<"[">>, "BRACKET_OPEN", line_number)>>]
    ELSE IF c = ":"
         THEN [index |-> index + 1, tokens |-> <<token_t(<<":">>, "COLON", line_number)>>]
    ELSE IF c = " "
         THEN [index |-> index + 1, tokens |-> <<>>]
    ELSE IF c = "-" \/ isdigit(c)
         THEN LET end == extract_number(source, index)
              IN  [index |-> end, tokens |-> <<token_t(Substr(source, index, end - index), "NUMBER", line_number)>>]
    ELSE LET found == FindChar(source, ":", index)
             end   == IF found = -1 THEN slength ELSE found
         IN  [index |-> end, tokens |-> <<token_t(Substr(source, index, end - index), "STRING", line_number)>>]

RECURSIVE process_token_scan(_, _, _, _)
process_token_scan(source, index, tokens, line_number) ==
    IF index >= Len(source) THEN tokens
    ELSE LET step == process_token_step(source, index, line_number)
         IN  process_token_scan(source, step.index, tokens \o step.tokens, line_number)

process_token(source, tokens, line_number) ==
    process_token_scan(source, 0, tokens, line_number)

RECURSIVE tokenize_scan(_, _, _, _)
tokenize_scan(source, index, tokens, line_number) ==
    IF index > Len(source) THEN tokens
    ELSE LET next == find_next_whitespace(source, index) IN
         IF next = index THEN tokens
         ELSE LET toks == process_token(Substr(source, index, next - index), tokens, line_number)
                  ws   == skip_whitespaces(source, next, line_number)
              IN  tokenize_scan(source, ws.index, toks, ws.line_number)

tokenize(source) ==
    LET ws == skip_whitespaces(source, 0, 0)
    IN  tokenize_scan(source, ws.index, <<>>, ws.line_number)

\* ------------------------------------------------------------------------
\* Node model
\* ------------------------------------------------------------------------

JTYPES == {"STRING", "OBJECT", "ARRAY", "BOOLEAN", "NUMBER", "NULL", "ERROR"}

\* jnode_t::jnode_t(jtype_t): empty value, line 0, no properties, no elements
jnode_t(type) ==
    [type |-> type, value |-> <<>>, line_number |-> 0, properties |-> <<>>, arr |-> <<>>]

\* ordered_map_t: the insertion-ordered list of (first, second) entries
RECURSIVE om_find(_, _, _)
om_find(list, key, n) ==
    IF n > Len(list) THEN 0
    ELSE IF list[n].first = key THEN n
    ELSE om_find(list, key, n + 1)

om_has(list, key) == om_find(list, key, 1) # 0

\* ordered_map_t::set: an existing key keeps its position and takes the new
\* value; a new key is appended
om_set(list, key, value) ==
    LET n == om_find(list, key, 1) IN
    IF n # 0 THEN [list EXCEPT ![n].second = value]
    ELSE Append(list, [first |-> key, second |-> value])

om_get(list, key) == list[om_find(list, key, 1)].second

om_erase(list, key) ==
    LET n == om_find(list, key, 1) IN
    IF n = 0 THEN list
    ELSE SubSeq(list, 1, n - 1) \o SubSeq(list, n + 1, Len(list))

om_keys(list) == [n \in 1..Len(list) |-> list[n].first]

\* outcome of a call that may throw: kind "ok" carries the node, the other
\* kinds are the exception classes with their public fields
Ok(node) == [kind |-> "ok", node |-> node]

parser_error(line, what) == [kind |-> "parser_error", line |-> line, what |-> what]

type_error(line, expected, found) ==
    [kind |-> "type_error", line |-> line, expected |-> expected, found |-> found]

range_error(line, index, size) ==
    [kind |-> "range_error", line |-> line, index |-> index, size |-> size]

size(node) ==
    IF node.type = "ARRAY" THEN Len(node.arr)
    ELSE IF node.type = "OBJECT" THEN Len(node.properties)
    ELSE 0

\* a variant that drops the children with the old type
set_type_emptying(node, type) == [node EXCEPT !.type = type, !.properties = <<>>, !.arr = <<>>]

\* jnode_t::set_type
set_type(node, type) == [node EXCEPT !.type = type]

set_line_number(node, line_number) == [node EXCEPT !.line_number = line_number]

\* a variant that stores the value whatever the node's type
set_value_unchecked(node, value) == Ok([node EXCEPT !.value = value])

set_value(node, value) ==
    IF node.type # "OBJECT" /\ node.type # "ARRAY"
    THEN Ok([node EXCEPT !.value = value])
    ELSE parser_error(node.line_number, "Trying to set the value of a node.")

\* an order on keys: lexicographic, characters ranked by CharOrder
CharOrder ==
    <<"'", "*", "/", "0", "1", "2", "3", "4", "5", "6", "7", "8", "9", "a", "b", "c", "v">>

CharRank(chr) ==
    IF \E i \in 1..Len(CharOrder) : CharOrder[i] = chr
    THEN CHOOSE i \in 1..Len(CharOrder) : CharOrder[i] = chr
    ELSE 0

RECURSIVE KeyLess(_, _)
KeyLess(a, b) ==
    IF Len(b) = 0 THEN FALSE
    ELSE IF Len(a) = 0 THEN TRUE
    ELSE IF CharRank(a[1]) # CharRank(b[1]) THEN CharRank(a[1]) < CharRank(b[1])
    ELSE KeyLess(Tail(a), Tail(b))

\* a variant that keeps the properties sorted by key, as a std::map would
add_property_sorted(node, key, child) ==
    IF node.type # "OBJECT"
    THEN parser_error(node.line_number, "Trying to add a property to a node.")
    ELSE IF om_has(node.properties, key)
    THEN Ok([node EXCEPT !.properties = om_set(node.properties, key, child)])
    ELSE Ok([node EXCEPT !.properties =
                SelectSeq(node.properties, LAMBDA e : KeyLess(e.first, key))
                \o <<[first |-> key, second |-> child]>>
                \o SelectSeq(node.properties, LAMBDA e : ~KeyLess(e.first, key))])

\* a variant that appends without looking the key up, as a vector would
add_property_append(node, key, child) ==
    IF node.type # "OBJECT"
    THEN parser_error(node.line_number, "Trying to add a property to a node.")
    ELSE Ok([node EXCEPT !.properties = Append(node.properties, [first |-> key, second |-> child])])

\* add_property(key) stores a default node under key; add_property(key, node)
\* stores the given one
add_property(node, key, child) ==
    IF node.type # "OBJECT"
    THEN parser_error(node.line_number, "Trying to add a property to a node.")
    ELSE Ok([node EXCEPT !.properties = om_set(node.properties, key, child)])

\* a variant that forgets to empty the element vector
clear_keeps_elements(node) ==
    [node EXCEPT !.type = "ERROR", !.value = <<>>, !.properties = <<>>]

\* jnode_t::clear()
clear(node) ==
    [node EXCEPT !.type = "ERROR", !.value = <<>>, !.properties = <<>>, !.arr = <<>>]

add_element(node, child) ==
    IF node.type # "ARRAY"
    THEN parser_error(node.line_number, "Trying to add an element to a node.")
    ELSE Ok([node EXCEPT !.arr = Append(node.arr, child)])

\* ------------------------------------------------------------------------
\* Parser
\* ------------------------------------------------------------------------

\* tokens[index]; an index at or past tokens.size() reads whatever lies
\* behind the vector's storage, here the token garbage
TokAt(tokens, index, garbage) ==
    IF index < Len(tokens) THEN tokens[index + 1] ELSE garbage

OutOfBounds(tokens, index) == index >= Len(tokens)

RECURSIVE skip_comments(_, _)
skip_comments(tokens, index) ==
    IF index >= Len(tokens) THEN index
    ELSE IF tokens[index + 1].type # "COMMENT" THEN index
    ELSE skip_comments(tokens, index + 1)

\* skip_tokens throws when index + count reaches tokens.size()
skip_tokens_throws(tokens, index, count) == index + count >= Len(tokens)

skip_tokens(tokens, index, count) == index + count

ran_out_of_tokens(current) == parser_error(current.line_number, "We ran out of tokens.")

\* a variant that takes a key only from a string token
key_text_of_string(token) == IF token.type = "STRING" THEN token.value ELSE <<>>

\* key = tokens[index].value.c_str()
key_text(token) == token.value

\* a variant that carries no line
cannot_type_the_entry_unlined(current) == parser_error(0, "Cannot type the entry.")

cannot_type_the_entry(current) == parser_error(current.line_number, "Cannot type the entry.")

\* a variant that does not take a closing token that follows a comma
at_closer_strict(tokens, index, garbage, closer) ==
    /\ TokAt(tokens, index, garbage).type = closer
    /\ TokAt(tokens, index - 1, garbage).type # "COMMA"

\* the loop condition of a container: the current token is its closing token
at_closer(tokens, index, garbage, closer) == TokAt(tokens, index, garbage).type = closer

\* a variant that takes whatever stands behind a member, short of a closing
\* token, for the separator
comma_count_any(tokens, index, garbage) ==
    IF TokAt(tokens, index, garbage).type \in {"CURLY_CLOSE", "BRACKET_CLOSE"} THEN 0 ELSE 1

\* number of tokens to skip after a member: one when a comma follows
comma_count(tokens, index, garbage) ==
    IF TokAt(tokens, index, garbage).type = "COMMA" THEN 1 ELSE 0

\* std::regex_replace(value, "\\\\[ \t]*\n", "\n")
RECURSIVE blank_run_end(_, _)
blank_run_end(value, index) ==
    IF CharAt(value, index) = " " \/ CharAt(value, index) = "\t"
    THEN blank_run_end(value, index + 1)
    ELSE index

RECURSIVE replace_escaped_newlines(_, _)
replace_escaped_newlines(value, index) ==
    IF index >= Len(value) THEN <<>>
    ELSE IF CharAt(value, index) = BACKSLASH
            /\ CharAt(value, blank_run_end(value, index + 1)) = NEWLINE
         THEN <<NEWLINE>> \o replace_escaped_newlines(value, blank_run_end(value, index + 1) + 1)
    ELSE <<CharAt(value, index)>> \o replace_escaped_newlines(value, index + 1)

\* outcome of json_parse: the node built, the output index, and whether a
\* token was read out of bounds on the way
Parsed(node, output_index, oob) ==
    [kind |-> "ok", node |-> node, output_index |-> output_index, oob |-> oob]

Thrown(error, oob) ==
    [kind |-> error.kind, line |-> error.line, what |-> error.what, oob |-> oob]

\* a variant that steps over the comments behind the value
output_index_behind_comments(tokens, index) == skip_comments(tokens, index + 1)

\* the end of json_parse: skip_comments at the last token of the value,
\* then output_index = index + 1
output_index_of(tokens, index) == skip_comments(tokens, index) + 1

RECURSIVE json_parse(_, _, _, _)
RECURSIVE object_loop(_, _, _, _, _)
RECURSIVE array_loop(_, _, _, _, _)

\* while (tokens[index].type != JTOKEN_CURLY_CLOSE) { ... }
object_loop(tokens, index, current, garbage, oob) ==
    LET oob0 == oob \/ OutOfBounds(tokens, index) IN
    IF at_closer(tokens, index, garbage, "CURLY_CLOSE")
    THEN Parsed(current, index, oob0)
    ELSE
    LET i1   == skip_comments(tokens, index)
        key  == key_text(TokAt(tokens, i1, garbage))
        oob1 == oob0 \/ OutOfBounds(tokens, i1)
    IN
    IF skip_tokens_throws(tokens, i1, 1) THEN Thrown(ran_out_of_tokens(current), oob1)
    ELSE
    LET i2 == skip_tokens(tokens, i1, 1) IN
    IF TokAt(tokens, i2, garbage).type # "COLON"
    THEN Thrown(parser_error(current.line_number, "We did not find a COLON."), oob1)
    ELSE IF skip_tokens_throws(tokens, i2, 1) THEN Thrown(ran_out_of_tokens(current), oob1)
    ELSE
    LET i3    == skip_comments(tokens, skip_tokens(tokens, i2, 1))
        added == add_property(current, key, jnode_t("NULL"))
        r     == json_parse(tokens, i3, jnode_t("NULL"), garbage)
    IN
    IF r.kind # "ok" THEN Thrown(r, oob1 \/ r.oob)
    ELSE
    LET stored == add_property(added.node, key, r.node).node
        i4     == skip_comments(tokens, r.output_index)
        oob2   == oob1 \/ r.oob \/ OutOfBounds(tokens, i4)
        count  == comma_count(tokens, i4, garbage)
    IN
    IF skip_tokens_throws(tokens, i4, count) THEN Thrown(ran_out_of_tokens(current), oob2)
    ELSE object_loop(tokens, skip_comments(tokens, skip_tokens(tokens, i4, count)),
                     stored, garbage, oob2)

\* while (tokens[index].type != JTOKEN_BRACKET_CLOSE) { ... }
array_loop(tokens, index, current, garbage, oob) ==
    LET oob0 == oob \/ OutOfBounds(tokens, index) IN
    IF at_closer(tokens, index, garbage, "BRACKET_CLOSE")
    THEN Parsed(current, index, oob0)
    ELSE
    LET i1 == skip_comments(tokens, index)
        r  == json_parse(tokens, i1, jnode_t("NULL"), garbage)
    IN
    IF r.kind # "ok" THEN Thrown(r, oob0 \/ r.oob)
    ELSE
    LET stored == add_element(current, r.node).node
        i2     == r.output_index
        oob1   == oob0 \/ r.oob \/ OutOfBounds(tokens, i2)
        count  == comma_count(tokens, i2, garbage)
    IN
    IF skip_tokens_throws(tokens, i2, count) THEN Thrown(ran_out_of_tokens(current), oob1)
    ELSE array_loop(tokens, skip_tokens(tokens, i2, count), stored, garbage, oob1)

json_parse(tokens, index, node, garbage) ==
    LET current == set_line_number(node, TokAt(tokens, index, garbage).line_number + 1)
        i0      == skip_comments(tokens, index)
        tok     == TokAt(tokens, i0, garbage)
        oob     == OutOfBounds(tokens, index) \/ OutOfBounds(tokens, i0)
        done(r) == IF r.kind # "ok" THEN r
                   ELSE Parsed(r.node, output_index_of(tokens, r.output_index), r.oob)
        scalar(type, value) ==
                   Parsed(set_value(set_type(current, type), value).node,
                          output_index_of(tokens, i0), oob)
    IN
    IF tok.type = "CURLY_OPEN"
    THEN IF skip_tokens_throws(tokens, i0, 1) THEN Thrown(ran_out_of_tokens(current), oob)
         ELSE done(object_loop(tokens, skip_tokens(tokens, i0, 1),
                               set_type(current, "OBJECT"), garbage, oob))
    ELSE IF tok.type = "BRACKET_OPEN"
    THEN IF skip_tokens_throws(tokens, i0, 1) THEN Thrown(ran_out_of_tokens(current), oob)
         ELSE done(array_loop(tokens, skip_tokens(tokens, i0, 1),
                              set_type(current, "ARRAY"), garbage, oob))
    ELSE IF tok.type = "NUMBER" THEN scalar("NUMBER", tok.value)
    ELSE IF tok.type = "STRING" THEN scalar("STRING", replace_escaped_newlines(tok.value, 0))
    ELSE IF tok.type = "BOOLEAN" THEN scalar("BOOLEAN", tok.value)
    ELSE IF tok.type = "NULL" THEN scalar("NULL", <<"n", "u", "l", "l">>)
    ELSE Thrown(cannot_type_the_entry(current), oob)

\* a variant that refuses tokens behind the first value
parse_whole(json_string, garbage) ==
    LET tokens == tokenize(json_string)
        r      == json_parse(tokens, 0, jnode_t("NULL"), garbage)
    IN  IF r.kind = "ok" /\ r.output_index < Len(tokens)
        THEN Thrown(parser_error(0, "Tokens behind the value."), r.oob)
        ELSE r

\* parser::parse: tokenize the text, then build the root from token 0
parse(json_string, garbage) == json_parse(tokenize(json_string), 0, jnode_t("NULL"), garbage)

\* ------------------------------------------------------------------------
\* Configuration (namespace config) and the serializer
\* ------------------------------------------------------------------------

VARIABLES strict_type_check, strict_existance_check, replace_escape_characters,
          string_delimiter_character

config == <<strict_type_check, strict_existance_check, replace_escape_characters,
            string_delimiter_character>>

\* the initial values of the four globals
ConfigInit ==
    /\ strict_type_check = FALSE
    /\ strict_existance_check = FALSE
    /\ replace_escape_characters = FALSE
    /\ string_delimiter_character = SQUOTE

RECURSIVE Spaces(_)
Spaces(n) == IF n <= 0 THEN <<>> ELSE <<" ">> \o Spaces(n - 1)

make_indentation(depth, tabsize) == Spaces(depth * tabsize)

\* replace_all(input, what, with): left to right, resuming behind each replacement
RECURSIVE replace_all(_, _, _)
replace_all(input, what, with) ==
    IF Len(input) < Len(what) THEN input
    ELSE IF SubSeq(input, 1, Len(what)) = what
         THEN with \o replace_all(SubSeq(input, Len(what) + 1, Len(input)), what, with)
    ELSE <<input[1]>> \o replace_all(SubSeq(input, 2, Len(input)), what, with)

escape_on_write(str) ==
    LET s1 == replace_all(str, <<BACKSLASH>>, <<BACKSLASH, BACKSLASH>>)
        s2 == replace_all(s1, <<DQUOTE>>, <<BACKSLASH, DQUOTE>>)
        s3 == replace_all(s2, <<"\t">>, <<BACKSLASH, "t">>)
        s4 == replace_all(s3, <<"\r", "\n">>, <<BACKSLASH, "r", BACKSLASH, "n">>)
        s5 == replace_all(s4, <<"\r">>, <<BACKSLASH, "r">>)
    IN  replace_all(s5, <<"\n">>, <<BACKSLASH, "n">>)

to_string_d_string(node) ==
    LET str == IF replace_escape_characters THEN escape_on_write(node.value) ELSE node.value
    IN  <<string_delimiter_character>> \o str \o <<string_delimiter_character>>

to_string_d_number(node) == node.value

to_string_d_boolean(node) == node.value

is_container(node) == node.type = "ARRAY" \/ node.type = "OBJECT"

RECURSIVE to_string_d(_, _, _, _)
RECURSIVE object_entries(_, _, _, _, _)
RECURSIVE array_entries(_, _, _, _, _)

\* the loop over properties.begin() .. properties.end(), from entry n on
object_entries(node, n, depth, pretty, tabsize) ==
    IF n > Len(node.properties) THEN <<>>
    ELSE (IF pretty THEN make_indentation(depth, tabsize) ELSE <<>>)
         \o <<string_delimiter_character>> \o node.properties[n].first
         \o <<string_delimiter_character>> \o <<":", " ">>
         \o to_string_d(node.properties[n].second, depth + 1, pretty, tabsize)
         \o (IF n < Len(node.properties) THEN <<",">> ELSE <<>>)
         \o (IF pretty THEN <<NEWLINE>> ELSE <<>>)
         \o object_entries(node, n + 1, depth, pretty, tabsize)

\* a variant that closes the last entry with a comma too
to_string_d_object_comma(node, depth, pretty, tabsize) ==
    <<"{">> \o (IF pretty THEN <<NEWLINE>> ELSE <<>>)
    \o object_entries(node, 1, depth, pretty, tabsize)
    \o (IF Len(node.properties) # 0 THEN <<",">> ELSE <<>>)
    \o (IF pretty THEN make_indentation(depth - 1, tabsize) ELSE <<>>)
    \o <<"}">>

to_string_d_object(node, depth, pretty, tabsize) ==
    <<"{">> \o (IF pretty THEN <<NEWLINE>> ELSE <<>>)
    \o object_entries(node, 1, depth, pretty, tabsize)
    \o (IF pretty THEN make_indentation(depth - 1, tabsize) ELSE <<>>)
    \o <<"}">>

\* the loop over arr, from element index on (0-based)
array_entries(node, index, depth, pretty, tabsize) ==
    IF index >= Len(node.arr) THEN <<>>
    ELSE (IF index # 0 THEN <<",", " ">> ELSE <<>>)
         \o (IF pretty /\ is_container(node.arr[index + 1])
             THEN <<NEWLINE>> \o make_indentation(depth, tabsize) ELSE <<>>)
         \o to_string_d(node.arr[index + 1], depth + 1, pretty, tabsize)
         \o array_entries(node, index + 1, depth, pretty, tabsize)

\* a variant that breaks the line before the bracket when the last element
\* is a container
to_string_d_array_last(node, depth, pretty, tabsize) ==
    <<"[">> \o array_entries(node, 0, depth, pretty, tabsize)
    \o (IF pretty /\ Len(node.arr) # 0 /\ is_container(node.arr[Len(node.arr)])
        THEN <<NEWLINE>> \o make_indentation(depth - 1, tabsize) ELSE <<>>)
    \o <<"]">>

to_string_d_array(node, depth, pretty, tabsize) ==
    <<"[">> \o array_entries(node, 0, depth, pretty, tabsize)
    \o (IF pretty /\ Len(node.arr) # 0 /\ is_container(node.arr[1])
        THEN <<NEWLINE>> \o make_indentation(depth - 1, tabsize) ELSE <<>>)
    \o <<"]">>

to_string_d(node, depth, pretty, tabsize) ==
    CASE node.type = "STRING"  -> to_string_d_string(node)
      [] node.type = "NUMBER"  -> to_string_d_number(node)
      [] node.type = "BOOLEAN" -> to_string_d_boolean(node)
      [] node.type = "OBJECT"  -> to_string_d_object(node, depth, pretty, tabsize)
      [] node.type = "ARRAY"   -> to_string_d_array(node, depth, pretty, tabsize)
      [] OTHER                 -> <<"n", "u", "l", "l">>

to_string(node, pretty, tabsize) == to_string_d(node, 1, pretty, tabsize)

\* ------------------------------------------------------------------------
\* Input documents: a document is a sequence of lexemes, rendered to text
\* with a separator between consecutive lexemes
\* ------------------------------------------------------------------------

MaxElems == 2

Lex(k, t) == [k |-> k, t |-> t, q |-> ""]

Str(t, q) == [k |-> "str", t |-> t, q |-> q]

LexText(l) == IF l.k = "str" THEN <<l.q>> \o l.t \o <<l.q>> ELSE l.t

RECURSIVE Render(_, _)
Render(lexemes, sep) ==
    IF Len(lexemes) = 0 THEN <<>>
    ELSE IF Len(lexemes) = 1 THEN LexText(lexemes[1])
    ELSE LexText(lexemes[1]) \o sep \o Render(Tail(lexemes), sep)

Seps == {<<>>, <<NEWLINE>>}

\* scalar values, in the cyclic order containers draw their members from
ScalarPool ==
    << <<Lex("num", <<"1">>)>>,
       <<Str(<<"x">>, SQUOTE)>>,
       <<Lex("lit", <<"t", "r", "u", "e">>)>>,
       <<Str(<<"i", "t", "'", "s">>, DQUOTE)>> >>

\* object keys: quoted either way (the first two are the same key) and bare
KeyPool ==
    << Str(<<"a">>, SQUOTE), Str(<<"a">>, DQUOTE), Lex("bare", <<"b">>), Str(<<"c">>, SQUOTE) >>

Cyc(pool, i) == pool[((i - 1) % Len(pool)) + 1]

RECURSIVE ArrayMembers(_, _, _)
ArrayMembers(pool, o, n) ==
    IF n = 0 THEN <<>>
    ELSE ArrayMembers(pool, o, n - 1)
         \o (IF n > 1 THEN <<Lex("comma", <<",">>)>> ELSE <<>>)
         \o Cyc(pool, o + n - 1)

RECURSIVE ObjectMembers(_, _, _)
ObjectMembers(pool, o, n) ==
    IF n = 0 THEN <<>>
    ELSE ObjectMembers(pool, o, n - 1)
         \o (IF n > 1 THEN <<Lex("comma", <<",">>)>> ELSE <<>>)
         \o <<Cyc(KeyPool, o + n - 1), Lex("colon", <<":">>)>>
         \o Cyc(pool, o + n - 1)

MakeArray(members) == <<Lex("open_arr", <<"[">>)>> \o members \o <<Lex("close_arr", <<"]">>)>>

MakeObject(members) == <<Lex("open_obj", <<"{">>)>> \o members \o <<Lex("close_obj", <<"}">>)>>

FlatContainers ==
    {MakeArray(<<>>), MakeObject(<<>>)}
    \cup {MakeArray(ArrayMembers(ScalarPool, o, n)) : o \in 1..Len(ScalarPool), n \in 1..MaxElems}
    \cup {MakeObject(ObjectMembers(ScalarPool, o, n)) : o \in 1..Len(ScalarPool), n \in 1..MaxElems}

\* a container nested in an array or an object, alone or next to a scalar
Wrappers(d) ==
    { MakeArray(d),
      MakeArray(ScalarPool[1] \o <<Lex("comma", <<",">>)>> \o d),
      MakeObject(<<KeyPool[1], Lex("colon", <<":">>)>> \o d),
      MakeObject(<<KeyPool[2], Lex("colon", <<":">>)>> \o d \o <<Lex("comma", <<",">>)>>
                 \o <<KeyPool[1], Lex("colon", <<":">>)>> \o ScalarPool[2]) }

Docs ==
    {ScalarPool[i] : i \in 1..Len(ScalarPool)}
    \cup FlatContainers
    \cup UNION {Wrappers(d) : d \in FlatContainers}

\* ------------------------------------------------------------------------
\* Edits of a document
\* ------------------------------------------------------------------------

BlockComment == Lex("comment", <<"/", "*", "c", "*", "/">>)

\* a line comment runs to the end of its line
LineComment == Lex("comment", <<"/", "/", "c", NEWLINE>>)

\* a block comment that spans two lines
MultiLineComment == Lex("comment", <<"/", "*", "c", NEWLINE, "c", "*", "/">>)

\* what may stand behind a complete value, set off by a blank so that it
\* starts a token of its own
Tails ==
    << Lex("tail", <<" ", "]">>),
       Lex("tail", <<" ", "}">>),
       Lex("tail", <<" ", ",">>),
       Lex("tail", <<" ", ":">>),
       Lex("tail", <<" ", "2">>),
       Lex("tail", <<" ", "[">>),
       Lex("tail", <<" ", "x">>),
       Lex("tail", <<" ", "/", "*", "c", "*", "/">>) >>

InsertAt(lexemes, p, l) == SubSeq(lexemes, 1, p) \o <<l>> \o SubSeq(lexemes, p + 1, Len(lexemes))

IsCloser(l) == l.k = "close_arr" \/ l.k = "close_obj"

IsOpener(l) == l.k = "open_arr" \/ l.k = "open_obj"

\* positions p such that lexeme p+1 closes a non-empty container
TrailingCommaPositions(lexemes) ==
    {p \in 1..(Len(lexemes) - 1) : IsCloser(lexemes[p + 1]) /\ ~IsOpener(lexemes[p])}

Requote(lexemes) ==
    [n \in 1..Len(lexemes) |->
        IF lexemes[n].k = "str" /\ lexemes[n].q = SQUOTE
        THEN Str(lexemes[n].t, DQUOTE) ELSE lexemes[n]]

\* the scalar values of a document: numbers, literals, and strings that
\* are no key
ScalarPositions(lexemes) ==
    {p \in 1..Len(lexemes) :
        \/ lexemes[p].k \in {"num", "lit"}
        \/ lexemes[p].k = "str" /\ (p = Len(lexemes) \/ lexemes[p + 1].k # "colon")}

\* tokens that start no value; a closing bracket is put only where no
\* array can take it as its end: behind a colon or alone
Misfits ==
    [bad_comma |-> Lex("comma", <<",">>), bad_colon |-> Lex("colon", <<":">>),
     bad_close_obj |-> Lex("close_obj", <<"}">>), bad_close_arr |-> Lex("close_arr", <<"]">>)]

MisfitPositions(lexemes, kind) ==
    {p \in ScalarPositions(lexemes) :
        kind = "bad_close_arr" => (Len(lexemes) = 1 \/ (p > 1 /\ lexemes[p - 1].k = "colon"))}

KeyPositions(lexemes) == {p \in 1..(Len(lexemes) - 1) : lexemes[p + 1].k = "colon"}

\* tokens of every kind but string, comment and closing brace
OddKeys ==
    [key_number |-> Lex("num", <<"7">>), key_true |-> Lex("lit", <<"t", "r", "u", "e">>),
     key_null |-> Lex("lit", <<"n", "u", "l", "l">>), key_open_arr |-> Lex("open_arr", <<"[">>),
     key_open_obj |-> Lex("open_obj", <<"{">>), key_comma |-> Lex("comma", <<",">>),
     key_close_arr |-> Lex("close_arr", <<"]">>)]

CommaPositions(lexemes) == {p \in 1..Len(lexemes) : lexemes[p].k = "comma"}

\* a blank in the place of a comma: the tokens before and behind stay apart
Blank == Lex("blank", <<" ">>)

Edits(d) ==
    {[kind |-> "none", pos |-> 0]}
    \cup {[kind |-> "block_comment", pos |-> p] : p \in 0..Len(d)}
    \cup {[kind |-> "line_comment", pos |-> p] : p \in 0..Len(d)}
    \cup {[kind |-> "multiline_comment", pos |-> p] : p \in 0..Len(d)}
    \cup {[kind |-> "trailing_comma", pos |-> p] : p \in TrailingCommaPositions(d)}
    \cup (IF Requote(d) # d THEN {[kind |-> "quotes", pos |-> 0]} ELSE {})
    \cup {[kind |-> "truncate", pos |-> p] : p \in 1..(Len(d) - 1)}
    \cup {[kind |-> "comment_truncate", pos |-> p] : p \in 1..(Len(d) - 1)}
    \cup {[kind |-> "append", pos |-> p] : p \in 1..Len(Tails)}
    \cup {[kind |-> "erase", pos |-> 0]}
    \cup {[kind |-> k, pos |-> p] : k \in DOMAIN OddKeys, p \in KeyPositions(d)}
    \cup {[kind |-> "drop_comma", pos |-> p] : p \in CommaPositions(d)}
    \cup (IF Cardinality(CommaPositions(d)) > 1 THEN {[kind |-> "drop_commas", pos |-> 0]} ELSE {})
    \cup UNION {{[kind |-> k, pos |-> p] : p \in MisfitPositions(d, k)} : k \in DOMAIN Misfits}

ApplyEdit(d, e) ==
    CASE e.kind = "block_comment"    -> InsertAt(d, e.pos, BlockComment)
      [] e.kind = "line_comment"     -> InsertAt(d, e.pos, LineComment)
      [] e.kind = "multiline_comment" -> InsertAt(d, e.pos, MultiLineComment)
      [] e.kind = "trailing_comma"   -> InsertAt(d, e.pos, Lex("comma", <<",">>))
      [] e.kind = "quotes"           -> Requote(d)
      [] e.kind = "truncate"         -> SubSeq(d, 1, e.pos)
      [] e.kind = "comment_truncate" -> SubSeq(d, 1, e.pos) \o <<BlockComment>>
      [] e.kind = "append"           -> Append(d, Tails[e.pos])
      [] e.kind = "erase"            -> <<>>
      [] e.kind \in DOMAIN OddKeys   -> [d EXCEPT ![e.pos] = OddKeys[e.kind]]
      [] e.kind = "drop_comma"       -> [d EXCEPT ![e.pos] = Blank]
      [] e.kind = "drop_commas"      ->
            [p \in 1..Len(d) |-> IF p \in CommaPositions(d) THEN Blank ELSE d[p]]
      [] e.kind \in DOMAIN Misfits   -> [d EXCEPT ![e.pos] = Misfits[e.kind]]
      [] OTHER                       -> d

\* ------------------------------------------------------------------------
\* Parse / serialize / parse again
\* ------------------------------------------------------------------------

VARIABLES doc, sep, edit, lex, pc, root, ref, pretty, text_out, again

pipeline == <<doc, sep, edit, lex, pc, root, ref, pretty, text_out, again>>

TokenTypes ==
    {"UNKNOWN", "STRING", "NUMBER", "CURLY_OPEN", "CURLY_CLOSE", "BRACKET_OPEN",
     "BRACKET_CLOSE", "COMMA", "COLON", "BOOLEAN", "COMMENT", "NULL"}

GarbageLines == {0, 7}

\* what a read behind the end of the token vector can yield
Garbage == {token_t(<<"?">>, t, l) : t \in TokenTypes, l \in GarbageLines}

\* a read behind the end of the token vector can also end the process
Crashed == [kind |-> "crash", oob |-> TRUE]

\* parser::parse(json_string): one outcome, unless a token is read out of bounds
ParseOutcomes(json_string) ==
    LET r == parse(json_string, token_t(<<"?">>, "UNKNOWN", 0)) IN
    IF ~r.oob THEN {r} ELSE {parse(json_string, g) : g \in Garbage} \cup {Crashed}

None == [kind |-> "none"]

PipelineInit ==
    /\ doc \in Docs
    /\ sep \in Seps
    /\ edit \in Edits(doc)
    /\ lex = ApplyEdit(doc, edit)
    /\ pc = "start"
    /\ root = None
    /\ ref = None
    /\ pretty = FALSE
    /\ text_out = <<>>
    /\ again = None

\* parse the edited text, and the original text for comparison
Parse ==
    /\ pc = "start"
    /\ root' \in ParseOutcomes(Render(lex, sep))
    /\ ref' \in ParseOutcomes(Render(doc, sep))
    /\ pc' = "parsed"
    /\ UNCHANGED <<doc, sep, edit, lex, pretty, text_out, again>>

TabSize(p) == IF p THEN 4 ELSE 0

\* root.to_string(pretty, tabsize)
Serialize(p) ==
    /\ pc = "parsed"
    /\ root.kind = "ok"
    /\ pretty' = p
    /\ text_out' = to_string(root.node, p, TabSize(p))
    /\ pc' = "serialized"
    /\ UNCHANGED <<doc, sep, edit, lex, root, ref, again>>

\* parse the serialized form
Reparse ==
    /\ pc = "serialized"
    /\ again' \in ParseOutcomes(text_out)
    /\ pc' = "reparsed"
    /\ UNCHANGED <<doc, sep, edit, lex, root, ref, pretty, text_out>>

\* ------------------------------------------------------------------------
\* Node interface
\* ------------------------------------------------------------------------

\* result of a call that returns a plain value
Value(v) == [kind |-> "ok", value |-> v]

\* result of a call that may change the node it is made on
Call(self, ret) == [self |-> self, ret |-> ret]

DigitValue(chr) == CHOOSE d \in 0..9 : CharOrder[d + 4] = chr

RECURSIVE digits_value(_, _, _)
digits_value(value, index, acc) ==
    IF isdigit(CharAt(value, index))
    THEN digits_value(value, index + 1, acc * 10 + DigitValue(CharAt(value, index)))
    ELSE acc

\* stream << value; stream >> output, for an integer output: an optional
\* sign and the leading digits; no digits leave 0
stream_extract(value) ==
    IF CharAt(value, 0) = "-" THEN 0 - digits_value(value, 1, 0)
    ELSE IF CharAt(value, 0) = "+" THEN digits_value(value, 1, 0)
    ELSE digits_value(value, 0, 0)

\* a variant that never looks at the strict flag
as_number_lenient(node) ==
    IF node.type = "NUMBER" THEN Value(stream_extract(node.value)) ELSE Value(0)

\* jnode_t::as_number<T>()
as_number(node) ==
    IF node.type = "NUMBER" THEN Value(stream_extract(node.value))
    ELSE IF strict_type_check THEN type_error(node.line_number, "NUMBER", node.type)
    ELSE Value(0)

\* operator>>(const jnode_t &lhs, T &rhs) for a numeric T: the value rhs
\* holds afterwards
stream_out_number(lhs, rhs) ==
    IF lhs.type = "NUMBER" THEN as_number(lhs)
    ELSE IF strict_type_check THEN type_error(lhs.line_number, "NUMBER", lhs.type)
    ELSE Value(rhs)

\* characters without a TLA+ escape, written symbolically
BACKSPACE == "<BS>"

HexDigits == <<"0", "1", "2", "3", "4", "5", "6", "7", "8", "9", "a", "b", "c", "d", "e", "f">>

\* the value a character adds in extract_unicode_escape: 0 for a character
\* that is neither a digit nor a lower-case hex letter
hex_value(chr) ==
    IF \E d \in 1..16 : HexDigits[d] = chr
    THEN (CHOOSE d \in 1..16 : HexDigits[d] = chr) - 1
    ELSE 0

\* static_cast<char>(value) for the codes the model meets
char_of(code) ==
    CASE code % 256 = 10 -> NEWLINE
      [] code % 256 = 39 -> SQUOTE
      [] code % 256 = 65 -> "A"
      [] OTHER -> "<chr>"

extract_unicode_escape(source, index) ==
    char_of(((hex_value(CharAt(source, index)) * 16 + hex_value(CharAt(source, index + 1))) * 16
             + hex_value(CharAt(source, index + 2))) * 16 + hex_value(CharAt(source, index + 3)))

\* extract_escape_sequence: the decoded character and the offset
extract_escape_sequence(source, index) ==
    LET c == CharAt(source, index + 1) IN
    CASE c = DQUOTE \/ c = SQUOTE -> [chr |-> string_delimiter_character, offset |-> 2]
      [] c = BACKSLASH -> [chr |-> BACKSLASH, offset |-> 2]
      [] c = "/" -> [chr |-> "/", offset |-> 2]
      [] c = "b" -> [chr |-> BACKSPACE, offset |-> 2]
      [] c = "f" -> [chr |-> "\f", offset |-> 2]
      [] c = "n" -> [chr |-> NEWLINE, offset |-> 2]
      [] c = "r" -> [chr |-> "\r", offset |-> 2]
      [] c = "t" -> [chr |-> "\t", offset |-> 2]
      [] c = "u" /\ index + 5 < Len(source) ->
            [chr |-> extract_unicode_escape(source, index + 2), offset |-> 6]
      [] OTHER -> [chr |-> c, offset |-> 2]

RECURSIVE deserialize_scan(_, _)
deserialize_scan(source, index) ==
    IF index >= Len(source) THEN <<>>
    ELSE IF CharAt(source, index) = BACKSLASH /\ index + 1 < Len(source)
    THEN LET e == extract_escape_sequence(source, index)
         IN  <<e.chr>> \o deserialize_scan(source, index + e.offset)
    ELSE <<CharAt(source, index)>> \o deserialize_scan(source, index + 1)

deserialize(source) == deserialize_scan(source, 0)

\* jnode_t::as_bool()
as_bool(node) ==
    IF node.type = "BOOLEAN" THEN Value(node.value = <<"t", "r", "u", "e">>)
    ELSE IF strict_type_check THEN type_error(node.line_number, "BOOLEAN", node.type)
    ELSE Value(FALSE)

\* jnode_t::as_string()
as_string(node) ==
    IF node.type = "STRING" THEN Value(deserialize(node.value))
    ELSE IF strict_type_check THEN type_error(node.line_number, "STRING", node.type)
    ELSE Value(<<>>)

\* a variant that passes index and size to range_error the other way round
at_index_swapped(node, index) ==
    IF node.type = "ARRAY"
    THEN IF index >= Len(node.arr)
         THEN range_error(node.line_number, Len(node.arr), index)
         ELSE Ok(node.arr[index + 1])
    ELSE IF node.type = "OBJECT"
    THEN IF index >= Len(node.properties)
         THEN range_error(node.line_number, Len(node.properties), index)
         ELSE Ok(node.properties[index + 1].second)
    ELSE parser_error(node.line_number, "Trying to use index-base acces for a node.")

\* jnode_t::operator[](std::size_t), const and non-const
at_index(node, index) ==
    IF node.type = "ARRAY"
    THEN IF index >= Len(node.arr)
         THEN range_error(node.line_number, index, Len(node.arr))
         ELSE Ok(node.arr[index + 1])
    ELSE IF node.type = "OBJECT"
    THEN IF index >= Len(node.properties)
         THEN range_error(node.line_number, index, Len(node.properties))
         ELSE Ok(node.properties[index + 1].second)
    ELSE parser_error(node.line_number, "Trying to use index-base acces for a node.")

\* the function-local static null_value
null_value == jnode_t("NULL")

\* jnode_t::operator[](const std::string &) const
at_key_const(node, key) ==
    IF node.type = "OBJECT" /\ om_has(node.properties, key)
    THEN Ok(om_get(node.properties, key))
    ELSE IF strict_existance_check
    THEN parser_error(node.line_number, "Trying to access the property for a node.")
    ELSE Ok(null_value)

\* a variant that creates the property whatever the strict flag says
at_key_creating(node, key) ==
    IF node.type = "OBJECT"
    THEN IF om_has(node.properties, key)
         THEN Call(node, Ok(om_get(node.properties, key)))
         ELSE Call(add_property(node, key, jnode_t("NULL")).node, Ok(jnode_t("NULL")))
    ELSE Call(node, parser_error(node.line_number, "Trying to access the property for a node."))

\* jnode_t::operator[](const std::string &)
at_key(node, key) ==
    IF node.type = "OBJECT"
    THEN IF om_has(node.properties, key)
         THEN Call(node, Ok(om_get(node.properties, key)))
         ELSE IF strict_existance_check
         THEN Call(node, parser_error(node.line_number, "Trying to access a non-existing property."))
         ELSE Call(add_property(node, key, jnode_t("NULL")).node, Ok(jnode_t("NULL")))
    ELSE Call(node, parser_error(node.line_number, "Trying to access the property for a node."))

bool_to_string(value) == IF value THEN <<"t", "r", "u", "e">> ELSE <<"f", "a", "l", "s", "e">>

RECURSIVE decimal(_)
decimal(n) ==
    IF n < 10 THEN <<CharOrder[n + 4]>>
    ELSE decimal(n \div 10) \o <<CharOrder[(n % 10) + 4]>>

\* stream << value for an integer value
number_to_string(value) == IF value < 0 THEN <<"-">> \o decimal(0 - value) ELSE decimal(value)

\* stream << static_cast<int>(value)
char_to_string(value) == number_to_string(value)

\* the code of a character a number can start with
char_code(chr) ==
    IF isdigit(chr) THEN 48 + DigitValue(chr)
    ELSE CASE chr = "+" -> 43 [] chr = "-" -> 45 [] chr = "." -> 46

\* stream << value; stream >> output, for a char output: the first
\* character of the text; an empty text leaves 0
stream_extract_char(value) == IF Len(value) = 0 THEN 0 ELSE char_code(value[1])

\* jnode_t::as_number<char>()
as_number_char(node) ==
    IF node.type = "NUMBER" THEN Value(stream_extract_char(node.value))
    ELSE IF strict_type_check THEN type_error(node.line_number, "NUMBER", node.type)
    ELSE Value(0)

ValueTypes == {"bool", "char", "short", "unsigned short", "int", "string"}

\* operator<<(jnode_t &lhs, const T &rhs): the node lhs is afterwards
stream_in(type, lhs, rhs) ==
    CASE type = "bool"   -> set_value(set_type(lhs, "BOOLEAN"), bool_to_string(rhs)).node
      [] type = "char"   -> set_value(set_type(lhs, "NUMBER"), char_to_string(rhs)).node
      [] type = "string" -> set_value(set_type(lhs, "STRING"), rhs).node
      [] OTHER           -> set_value(set_type(lhs, "NUMBER"), number_to_string(rhs)).node

stream_out_bool(lhs, rhs) ==
    IF lhs.type = "BOOLEAN" THEN as_bool(lhs)
    ELSE IF strict_type_check THEN type_error(lhs.line_number, "BOOLEAN", lhs.type)
    ELSE Value(rhs)

stream_out_char(lhs, rhs) ==
    IF lhs.type = "NUMBER" THEN as_number_char(lhs)
    ELSE IF strict_type_check THEN type_error(lhs.line_number, "NUMBER", lhs.type)
    ELSE Value(rhs)

stream_out_string(lhs, rhs) ==
    IF lhs.type = "STRING" THEN as_string(lhs)
    ELSE IF strict_type_check THEN type_error(lhs.line_number, "STRING", lhs.type)
    ELSE Value(rhs)

\* operator>>(const jnode_t &lhs, T &rhs): the value rhs holds afterwards
stream_out(type, lhs, rhs) ==
    CASE type = "bool"   -> stream_out_bool(lhs, rhs)
      [] type = "char"   -> stream_out_char(lhs, rhs)
      [] type = "string" -> stream_out_string(lhs, rhs)
      [] OTHER           -> stream_out_number(lhs, rhs)

\* ------------------------------------------------------------------------
\* A node driven through its interface
\* ------------------------------------------------------------------------

MaxSize == 3

Keys == {<<"v", "0">>, <<"v", "1">>, <<"v", "2">>}

Leaf(type, value, line_number) ==
    [jnode_t(type) EXCEPT !.value = value, !.line_number = line_number]

\* the nodes stored as properties and elements
Children == {Leaf("NUMBER", <<"4", "2">>, 2), Leaf("BOOLEAN", <<"t", "r", "u", "e">>, 3)}

\* flat objects in text form, the first with a repeated key; their values
\* hold no quote character
SeedTexts ==
    {Render(MakeObject(ObjectMembers(SubSeq(ScalarPool, 1, 3), o, n)), <<>>) :
        o \in 1..2, n \in 2..MaxElems}

\* the texts of the tokens that stand before a colon
RECURSIVE key_tokens(_, _)
key_tokens(tokens, n) ==
    IF n >= Len(tokens) THEN <<>>
    ELSE IF tokens[n + 1].type = "COLON" THEN <<tokens[n].value>> \o key_tokens(tokens, n + 1)
    ELSE key_tokens(tokens, n + 1)

\* the texts of the tokens that stand behind a colon
RECURSIVE value_tokens(_, _)
value_tokens(tokens, n) ==
    IF n >= Len(tokens) THEN <<>>
    ELSE IF tokens[n].type = "COLON" THEN <<tokens[n + 1].value>> \o value_tokens(tokens, n + 1)
    ELSE value_tokens(tokens, n + 1)

\* a sequence without the repetitions of its members
RECURSIVE FirstOccurrences(_)
FirstOccurrences(seq) ==
    IF Len(seq) = 0 THEN <<>>
    ELSE LET front == FirstOccurrences(SubSeq(seq, 1, Len(seq) - 1))
             x == seq[Len(seq)]
         IN IF \E i \in 1..Len(front) : front[i] = x THEN front ELSE Append(front, x)

VARIABLES node, order, last, cleared

nodevars == <<node, order, last, cleared>>

NoArgs == [key |-> <<>>, index |-> 0, child |-> jnode_t("NULL"), text |-> <<>>, rhs |-> 0]

Called(op, args, before, ret) ==
    [op |-> op, key |-> args.key, index |-> args.index, child |-> args.child,
     text |-> args.text, rhs |-> args.rhs, before |-> before, ret |-> ret]

NoCall == Called("none", NoArgs, jnode_t("NULL"), None)

\* the ghost record of first insertions
Inserted(key) == IF \E i \in 1..Len(order) : order[i] = key THEN order ELSE Append(order, key)

NodeInit ==
    /\ node \in {jnode_t(type) : type \in JTYPES}
    /\ order = <<>>
    /\ last = NoCall
    /\ cleared = FALSE

NodeIdle ==
    /\ node = jnode_t("NULL")
    /\ order = <<>>
    /\ last = NoCall
    /\ cleared = FALSE

PipelineIdle ==
    /\ doc = <<>>
    /\ sep = <<>>
    /\ edit = [kind |-> "none", pos |-> 0]
    /\ lex = <<>>
    /\ pc = "idle"
    /\ root = None
    /\ ref = None
    /\ pretty = FALSE
    /\ text_out = <<>>
    /\ again = None

SetStrictTypeCheck(b) ==
    /\ strict_type_check # b
    /\ strict_type_check' = b
    /\ last' = NoCall
    /\ UNCHANGED <<strict_existance_check, replace_escape_characters,
                   string_delimiter_character, node, order>>

SetStrictExistanceCheck(b) ==
    /\ strict_existance_check # b
    /\ strict_existance_check' = b
    /\ last' = NoCall
    /\ UNCHANGED <<strict_type_check, replace_escape_characters,
                   string_delimiter_character, node, order>>

SetReplaceEscapeCharacters(b) ==
    /\ replace_escape_characters # b
    /\ replace_escape_characters' = b
    /\ last' = NoCall
    /\ UNCHANGED <<strict_type_check, strict_existance_check,
                   string_delimiter_character, node, order>>

\* root = parser::parse(text)
ParseText(text) ==
    /\ last.op = "none"
    /\ size(node) = 0
    /\ \E r \in ParseOutcomes(text) :
          /\ r.kind = "ok"
          /\ node' = r.node
          /\ last' = Called("parse", [NoArgs EXCEPT !.text = text], node, Ok(r.node))
    /\ order' = FirstOccurrences(key_tokens(tokenize(text), 1))
    /\ UNCHANGED config

SetType(type) ==
    /\ node' = set_type(node, type)
    /\ last' = Called("set_type", NoArgs, node, Ok(node'))
    /\ UNCHANGED <<config, order>>

Clear ==
    /\ node' = clear(node)
    /\ order' = <<>>
    /\ last' = Called("clear", NoArgs, node, Ok(node'))
    /\ UNCHANGED config

SetValue(value) ==
    /\ LET r == set_value(node, value) IN
          /\ node' = IF r.kind = "ok" THEN r.node ELSE node
          /\ last' = Called("set_value", [NoArgs EXCEPT !.text = value], node, r)
    /\ UNCHANGED <<config, order>>

AddProperty(key, child) ==
    /\ size(node) < MaxSize \/ om_has(node.properties, key)
    /\ LET r == add_property(node, key, child) IN
          /\ node' = IF r.kind = "ok" THEN r.node ELSE node
          /\ order' = IF r.kind = "ok" THEN Inserted(key) ELSE order
          /\ last' = Called("add_property", [NoArgs EXCEPT !.key = key, !.child = child], node, r)
    /\ UNCHANGED config

AddElement(child) ==
    /\ size(node) < MaxSize
    /\ LET r == add_element(node, child) IN
          /\ node' = IF r.kind = "ok" THEN r.node ELSE node
          /\ last' = Called("add_element", [NoArgs EXCEPT !.child = child], node, r)
    /\ UNCHANGED <<config, order>>

AtKey(key) ==
    /\ size(node) < MaxSize \/ om_has(node.properties, key)
    /\ LET c == at_key(node, key) IN
          /\ node' = c.self
          /\ order' = IF c.self # node THEN Inserted(key) ELSE order
          /\ last' = Called("at_key", [NoArgs EXCEPT !.key = key], node, c.ret)
    /\ UNCHANGED config

AtKeyConst(key) ==
    /\ last' = Called("at_key_const", [NoArgs EXCEPT !.key = key], node, at_key_const(node, key))
    /\ UNCHANGED <<config, node, order>>

AtIndex(index) ==
    /\ last' = Called("at_index", [NoArgs EXCEPT !.index = index], node, at_index(node, index))
    /\ UNCHANGED <<config, node, order>>

\* the node itself and the nodes one positional access away
Targets == {node} \cup {at_index(node, i).node : i \in 0..(size(node) - 1)}

AsNumber(target) ==
    /\ last' = Called("as_number", NoArgs, target, as_number(target))
    /\ UNCHANGED <<config, node, order>>

AsBool(target) ==
    /\ last' = Called("as_bool", NoArgs, target, as_bool(target))
    /\ UNCHANGED <<config, node, order>>

AsString(target) ==
    /\ last' = Called("as_string", NoArgs, target, as_string(target))
    /\ UNCHANGED <<config, node, order>>

StreamOutNumber(target, rhs) ==
    /\ last' = Called("stream_out_number", [NoArgs EXCEPT !.rhs = rhs], target,
                      stream_out_number(target, rhs))
    /\ UNCHANGED <<config, node, order>>

\* for (it = node.pbegin(); it != node.pend(); ++it) collecting it->first
Iterate ==
    /\ node.type = "OBJECT"
    /\ last' = Called("iterate", NoArgs, node, Value(om_keys(node.properties)))
    /\ UNCHANGED <<config, node, order>>

SerializeNode(p) ==
    /\ last' = Called("to_string", NoArgs, node, Value(to_string(node, p, TabSize(p))))
    /\ UNCHANGED <<config, node, order>>

\* ------------------------------------------------------------------------
\* Typed values written with operator<< and read back with operator>>
\* ------------------------------------------------------------------------

\* the longest text drawn character by character
MaxText == 3

\* strings without quote and backslash characters
PlainStrings == UNION {[1..n -> {"a", " ", ",", "/", NEWLINE}] : n \in 0..MaxText}

Samples(type) ==
    CASE type = "bool"           -> BOOLEAN
      [] type = "char"           -> {-128, -3, 0, 7, 53, 97, 127}
      [] type = "short"          -> {-32768, -12, 0, 5, 32767}
      [] type = "unsigned short" -> {0, 9, 10, 65535}
      [] type = "int"            -> {-1000000, -1, 1, 1000000}
      [] type = "string"         -> PlainStrings

\* what a variable of the type holds before it is read into
Default(type) == CASE type = "bool" -> FALSE [] type = "string" -> <<>> [] OTHER -> 0

VARIABLE rt

RoundTripKey == <<"v">>

RoundTripIdle == rt = [pc |-> "idle"]

RoundTripInit ==
    \E type \in ValueTypes : \E x \in Samples(type) :
        rt = [pc |-> "start", type |-> type, x |-> x, out_root |-> jnode_t("OBJECT"),
              json |-> <<>>, in_root |-> None, y |-> None]

\* out_root["v"] << x
WriteValue ==
    /\ rt.pc = "start"
    /\ LET created == at_key(rt.out_root, RoundTripKey)
           written == stream_in(rt.type, created.ret.node, rt.x)
       IN  rt' = [rt EXCEPT !.pc = "written",
                            !.out_root = [created.self EXCEPT
                                             !.properties = om_set(@, RoundTripKey, written)]]

\* json = out_root.to_string(false, 0)
WriteText ==
    /\ rt.pc = "written"
    /\ rt' = [rt EXCEPT !.pc = "serialized", !.json = to_string(rt.out_root, FALSE, 0)]

\* in_root = json::parser::parse(json)
ReadText ==
    /\ rt.pc = "serialized"
    /\ \E r \in ParseOutcomes(rt.json) : rt' = [rt EXCEPT !.pc = "parsed", !.in_root = r]

\* in_root["v"] >> y
ReadValue ==
    /\ rt.pc = "parsed"
    /\ rt.in_root.kind = "ok"
    /\ LET found == at_key(rt.in_root.node, RoundTripKey) IN
          rt' = [rt EXCEPT !.pc = "read",
                           !.y = IF found.ret.kind = "ok"
                                 THEN stream_out(rt.type, found.ret.node, Default(rt.type))
                                 ELSE found.ret]

\* ------------------------------------------------------------------------
\* The tokenizer, one loop iteration at a time
\* ------------------------------------------------------------------------

Alphabet == {DQUOTE, BACKSLASH, "/", "*", " ", NEWLINE, ":", "-", "a"}

SampleTexts ==
    { <<"t", "r", "u", "e">>,
      <<"n", "u", "l", "l", ",", "f", "a", "l", "s", "e", "}">>,
      <<"/", "*", "a", "*", "/", "1", "e", "+", "5">>,
      <<"'", "a", BACKSLASH, "'", "b", "'", " ", "[", "]">>,
      <<"{", "a", ":", "-", "1", ".", "5", "e", "}">>,
      <<"1", ".", "2", ".", "3">>,
      <<"f", "a", "l", "s", "e">>,
      <<"n", "u", "l", "l">>,
      <<"n", "u", "l", "l", "a", "b", "l", "e">>,
      <<"t", "r", "u", "e", "V", "a", "l", "u", "e">>,
      <<"t", "r", "u">>,
      <<"-", "1", ".", "5", "E", "-", "2", ",", "7">>,
      <<DQUOTE, BACKSLASH, BACKSLASH, DQUOTE, " ", "a">>,
      <<DQUOTE, BACKSLASH, BACKSLASH, BACKSLASH, DQUOTE, DQUOTE>>,
      <<DQUOTE, BACKSLASH, BACKSLASH, BACKSLASH, BACKSLASH, DQUOTE, " ", "a">> }

Texts == UNION {[1..n -> Alphabet] : n \in 0..MaxText} \cup SampleTexts

VARIABLE tk

\* std::string::substr(pos, n) throws std::out_of_range when pos > size()
substr_throws(source, pos) == pos > Len(source)

TokenizerIdle == tk = [pc |-> "idle"]

TokenizerInit ==
    \E source \in Texts :
        tk = [pc |-> "start", source |-> source, index |-> 0, line_number |-> 0, tokens |-> <<>>,
              next |-> 0, chunk |-> <<>>, cindex |-> 0, moved |-> TRUE, raised |-> FALSE]

\* tokenize up to its loop: skip the leading whitespace
TokenizeBegin ==
    /\ tk.pc = "start"
    /\ LET ws == skip_whitespaces(tk.source, 0, 0) IN
          tk' = [tk EXCEPT !.pc = "scan", !.index = ws.index, !.line_number = ws.line_number]

\* the head of the loop of tokenize: cut the next chunk or stop
TokenizeChunk ==
    /\ tk.pc = "scan"
    /\ LET next == find_next_whitespace(tk.source, tk.index) IN
          IF tk.index > Len(tk.source) \/ next = tk.index
          THEN tk' = [tk EXCEPT !.pc = "done"]
          ELSE tk' = [tk EXCEPT !.pc = "chunk", !.next = next,
                                !.chunk = Substr(tk.source, tk.index, next - tk.index),
                                !.cindex = 0,
                                !.raised = substr_throws(tk.source, tk.index)]

\* one iteration of the loop of process_token
ProcessTokenStep ==
    /\ tk.pc = "chunk"
    /\ tk.cindex < Len(tk.chunk)
    /\ LET step == process_token_step(tk.chunk, tk.cindex, tk.line_number) IN
          tk' = [tk EXCEPT !.cindex = step.index,
                           !.tokens = @ \o step.tokens,
                           !.moved = step.index > tk.cindex,
                           !.raised = is_quote(CharAt(tk.chunk, tk.cindex))
                                      /\ substr_throws(tk.chunk, tk.cindex + 1)]

\* the tail of the loop of tokenize: skip the whitespace behind the chunk
TokenizeAdvance ==
    /\ tk.pc = "chunk"
    /\ tk.cindex >= Len(tk.chunk)
    /\ LET ws == skip_whitespaces(tk.source, tk.next, tk.line_number) IN
          tk' = [tk EXCEPT !.pc = "scan", !.index = ws.index, !.line_number = ws.line_number,
                           !.moved = ws.index > tk.index]

Init == ConfigInit /\ NodeInit /\ PipelineIdle /\ TokenizerIdle /\ RoundTripIdle

Next ==
    \/ (\E b \in BOOLEAN : SetStrictTypeCheck(b)) /\ UNCHANGED <<pipeline, cleared, tk, rt>>
    \/ (\E b \in BOOLEAN : SetStrictExistanceCheck(b)) /\ UNCHANGED <<pipeline, cleared, tk, rt>>
    \/ (\E t \in SeedTexts : ParseText(t)) /\ UNCHANGED <<pipeline, cleared, tk, rt>>
    \/ SetValue(<<"7">>) /\ UNCHANGED <<pipeline, cleared, tk, rt>>
    \/ (\E k \in Keys, c \in Children : AddProperty(k, c)) /\ UNCHANGED <<pipeline, cleared, tk, rt>>
    \/ (\E c \in Children : AddElement(c)) /\ UNCHANGED <<pipeline, cleared, tk, rt>>
    \/ (\E k \in Keys : AtKey(k)) /\ UNCHANGED <<pipeline, cleared, tk, rt>>
    \/ (\E k \in Keys : AtKeyConst(k)) /\ UNCHANGED <<pipeline, cleared, tk, rt>>
    \/ (\E i \in 0..(MaxSize + 1) : AtIndex(i)) /\ UNCHANGED <<pipeline, cleared, tk, rt>>
    \/ (\E t \in Targets : AsNumber(t)) /\ UNCHANGED <<pipeline, cleared, tk, rt>>
    \/ (\E t \in Targets : AsBool(t)) /\ UNCHANGED <<pipeline, cleared, tk, rt>>
    \/ (\E t \in Targets : AsString(t)) /\ UNCHANGED <<pipeline, cleared, tk, rt>>
    \/ (\E t \in Targets : StreamOutNumber(t, 9)) /\ UNCHANGED <<pipeline, cleared, tk, rt>>
    \/ Iterate /\ UNCHANGED <<pipeline, cleared, tk, rt>>
    \/ (\E p \in BOOLEAN : SerializeNode(p)) /\ UNCHANGED <<pipeline, cleared, tk, rt>>

LifecycleChild == Leaf("NUMBER", <<"4", "2">>, 2)

\* a node that is typed, filled, cleared and typed again; `cleared` holds
\* from a clear() to the next set_type
LifecycleNext ==
    \/ (\E t \in JTYPES : SetType(t)) /\ cleared' = FALSE /\ UNCHANGED <<pipeline, tk, rt>>
    \/ Clear /\ cleared' = TRUE /\ UNCHANGED <<pipeline, tk, rt>>
    \/ SetValue(<<"7">>) /\ UNCHANGED <<pipeline, cleared, tk, rt>>
    \/ (\E k \in Keys : AddProperty(k, LifecycleChild)) /\ UNCHANGED <<pipeline, cleared, tk, rt>>
    \/ AddElement(LifecycleChild) /\ UNCHANGED <<pipeline, cleared, tk, rt>>

SpecParseInit == ConfigInit /\ PipelineInit /\ NodeIdle /\ TokenizerIdle /\ RoundTripIdle

SpecParseNext ==
    \/ Parse /\ UNCHANGED <<config, nodevars, tk, rt>>
    \/ (\E p \in BOOLEAN : Serialize(p)) /\ UNCHANGED <<config, nodevars, tk, rt>>
    \/ Reparse /\ UNCHANGED <<config, nodevars, tk, rt>>

\* string literals in double quotes: every body of up to MaxText characters
\* that mixes a letter, the backslash, the letter of the newline escape and
\* a line break, and a two-line text with the escape in the middle
EscapeBodies ==
    UNION {[1..n -> {"a", BACKSLASH, "n", NEWLINE}] : n \in 0..MaxText}
    \cup {<<"l", "i", "n", "e", "1", BACKSLASH, "n", "l", "i", "n", "e", "2">>}

EscapeTexts == {<<DQUOTE>> \o body \o <<DQUOTE>> : body \in EscapeBodies}

EscapeNext ==
    \/ (\E text \in EscapeTexts : ParseText(text)) /\ UNCHANGED <<pipeline, cleared, tk, rt>>
    \/ (\E b \in BOOLEAN : SetReplaceEscapeCharacters(b)) /\ UNCHANGED <<pipeline, cleared, tk, rt>>
    \/ AsString(node) /\ UNCHANGED <<pipeline, cleared, tk, rt>>
    \/ (\E p \in BOOLEAN : SerializeNode(p)) /\ UNCHANGED <<pipeline, cleared, tk, rt>>

SpecEscapeInit == ConfigInit /\ NodeIdle /\ PipelineIdle /\ TokenizerIdle /\ RoundTripIdle

SpecTokenizeInit == ConfigInit /\ PipelineIdle /\ NodeIdle /\ TokenizerInit /\ RoundTripIdle

SpecTokenizeNext ==
    \/ TokenizeBegin /\ UNCHANGED <<config, pipeline, nodevars, rt>>
    \/ TokenizeChunk /\ UNCHANGED <<config, pipeline, nodevars, rt>>
    \/ ProcessTokenStep /\ UNCHANGED <<config, pipeline, nodevars, rt>>
    \/ TokenizeAdvance /\ UNCHANGED <<config, pipeline, nodevars, rt>>

SpecTypesInit == ConfigInit /\ PipelineIdle /\ NodeIdle /\ TokenizerIdle /\ RoundTripInit

SpecTypesNext ==
    \/ WriteValue /\ UNCHANGED <<config, pipeline, nodevars, tk>>
    \/ WriteText /\ UNCHANGED <<config, pipeline, nodevars, tk>>
    \/ ReadText /\ UNCHANGED <<config, pipeline, nodevars, tk>>
    \/ ReadValue /\ UNCHANGED <<config, pipeline, nodevars, tk>>

vars == <<config, pipeline, nodevars, tk, rt>>

Spec == Init /\ [][Next]_vars

SpecParse == SpecParseInit /\ [][SpecParseNext]_vars

SpecLifecycle == Init /\ [][LifecycleNext]_vars

SpecEscape == SpecEscapeInit /\ [][EscapeNext]_vars

SpecTypes == SpecTypesInit /\ [][SpecTypesNext]_vars

\* the loops of tokenize run to their end: every iteration is taken
SpecTokenize == SpecTokenizeInit /\ [][SpecTokenizeNext]_vars /\ WF_vars(SpecTokenizeNext)

\* ------------------------------------------------------------------------
\* Properties
\* ------------------------------------------------------------------------

\* a tree without its line numbers: types, keys and their order, elements
\* and their order, value text
RECURSIVE Shape(_)
Shape(n) ==
    [type |-> n.type, value |-> n.value,
     properties |-> [i \in 1..Len(n.properties) |->
                        [first |-> n.properties[i].first, second |-> Shape(n.properties[i].second)]],
     arr |-> [i \in 1..Len(n.arr) |-> Shape(n.arr[i])]]

SameTree(a, b) == a.kind = "ok" /\ b.kind = "ok" /\ Shape(a.node) = Shape(b.node)

\* the lines of the containers a token list leaves open, outermost first
RECURSIVE open_lines(_, _, _)
open_lines(tokens, n, stack) ==
    IF n > Len(tokens) THEN stack
    ELSE IF tokens[n].type \in {"CURLY_OPEN", "BRACKET_OPEN"}
    THEN open_lines(tokens, n + 1, Append(stack, tokens[n].line_number + 1))
    ELSE IF tokens[n].type \in {"CURLY_CLOSE", "BRACKET_CLOSE"} /\ Len(stack) > 0
    THEN open_lines(tokens, n + 1, SubSeq(stack, 1, Len(stack) - 1))
    ELSE open_lines(tokens, n + 1, stack)

\* the line of the innermost container a text leaves open, 0 when none is
InnermostOpenLine(text) ==
    LET stack == open_lines(tokenize(text), 1, <<>>) IN
    IF Len(stack) = 0 THEN 0 ELSE stack[Len(stack)]

UniqueKeys(n) ==
    \A i, j \in 1..Len(n.properties) :
        n.properties[i].first = n.properties[j].first => i = j

Absent(n, key) == \A i \in 1..Len(n.properties) : n.properties[i].first # key

PositionOf(n, key) == CHOOSE i \in 1..Len(n.properties) : n.properties[i].first = key

\* C1: for a well-formed text, parsing the compact or pretty serialization
\* of its tree gives a tree equal to it up to line numbers.
C1_RoundTrip ==
    (pc = "reparsed" /\ edit.kind = "none") => SameTree(again, root)

\* C2: a comment inserted between two tokens of a well-formed document
\* leaves the parse result equal to the tree of the comment-free document.
C2_CommentTransparency ==
    (pc = "parsed" /\ edit.kind \in {"block_comment", "line_comment"}
        /\ edit.pos \in 1..(Len(doc) - 1))
    => SameTree(root, ref)

\* C3: when the token list ends inside an unclosed container, parse raises
\* a parser_error carrying the line of the innermost open container and
\* returns no tree.
C3_Exhaustion ==
    (pc = "parsed" /\ edit.kind \in {"truncate", "comment_truncate"})
    => (root.kind = "parser_error" /\ root.line = InnermostOpenLine(Render(lex, sep)))

\* C4: iteration and serialization visit the properties of an object in the
\* order in which their keys were first inserted.
C4_InsertionOrder ==
    /\ node.type = "OBJECT" => om_keys(node.properties) = order
    /\ last.op = "iterate" => last.ret.value = order
    /\ (last.op = "to_string" /\ node.type = "OBJECT")
       => key_tokens(tokenize(last.ret.value), 1) = order

C4_Witness ==
    /\ last.op = "to_string"
    /\ node.type = "OBJECT"
    /\ order = << <<"v", "0">>, <<"v", "2">>, <<"v", "1">> >>

\* C5: the keys of an object are unique; adding under an existing key, by
\* add_property or by a repeated key in parsed text, replaces the value,
\* keeps size() and keeps the key at its position.
C5_UniqueKeys ==
    /\ UniqueKeys(node)
    /\ (last.op = "add_property" /\ last.before.type = "OBJECT" /\ ~Absent(last.before, last.key))
       => /\ size(node) = size(last.before)
          /\ node.properties =
                [last.before.properties EXCEPT ![PositionOf(last.before, last.key)].second = last.child]
    /\ last.op = "parse"
       => LET keys == key_tokens(tokenize(last.text), 1)
              values == value_tokens(tokenize(last.text), 1)
          IN /\ om_keys(node.properties) = FirstOccurrences(keys)
             /\ size(node) = Cardinality({keys[i] : i \in 1..Len(keys)})
             /\ \A i \in 1..Len(keys) :
                   (\A j \in (i + 1)..Len(keys) : keys[j] # keys[i])
                   => node.properties[PositionOf(node, keys[i])].second.value = values[i]

C5_Witness ==
    /\ last.op = "add_property"
    /\ size(last.before) >= 2
    /\ ~Absent(last.before, last.key)
    /\ PositionOf(last.before, last.key) = 1
    /\ last.before.properties[1].second # last.child

\* C6: a trailing comma before a closing brace or bracket is accepted, and
\* the container has the members, in the order, of the text without it.
C6_TrailingComma ==
    (pc = "parsed" /\ edit.kind = "trailing_comma") => SameTree(root, ref)

C6_Witness ==
    /\ pc = "parsed"
    /\ edit.kind = "trailing_comma"
    /\ root.kind = "ok"
    /\ root.node.type = "OBJECT"
    /\ size(root.node) = 1
    /\ lex[Len(lex) - 1].k = "comma"

\* C7: writing the single-quoted keys and strings of a document with double
\* quotes gives an identical tree, line numbers included.
C7_QuoteInterchange ==
    (pc = "parsed" /\ edit.kind = "quotes")
    => (root.kind = "ok" /\ ref.kind = "ok" /\ root.node = ref.node)

C7_Witness ==
    /\ pc = "parsed"
    /\ edit.kind = "quotes"
    /\ root.kind = "ok"
    /\ root.node.type = "OBJECT"
    /\ size(root.node) = 2
    /\ root.node.properties[2].second.type = "STRING"

\* C8: the numeric accessor on a node that is not a NUMBER raises a
\* type_error (expected NUMBER, found the node's type, the node's line) when
\* strict type checking is on; when it is off as_number returns zero and
\* neither form raises.
C8_StrictNumber ==
    /\ (last.op = "as_number" /\ last.before.type # "NUMBER")
       => last.ret = (IF strict_type_check
                      THEN type_error(last.before.line_number, "NUMBER", last.before.type)
                      ELSE Value(0))
    /\ (last.op = "stream_out_number" /\ last.before.type # "NUMBER")
       => IF strict_type_check
          THEN last.ret = type_error(last.before.line_number, "NUMBER", last.before.type)
          ELSE last.ret.kind = "ok"

C8_Witness ==
    /\ last.op = "as_number"
    /\ strict_type_check
    /\ last.before.type = "BOOLEAN"
    /\ last.before.line_number = 3
    /\ last.ret.kind = "type_error"

\* C9: positional access on an array or object of size S raises a
\* range_error with index i and size S when i >= S, whatever the strict
\* flags, and does not raise when i < S.
C9_RangeCheck ==
    (last.op = "at_index" /\ last.before.type \in {"ARRAY", "OBJECT"})
    => IF last.index >= size(last.before)
       THEN /\ last.ret.kind = "range_error"
            /\ last.ret.index = last.index
            /\ last.ret.size = size(last.before)
       ELSE last.ret.kind = "ok"

C9_Witness ==
    /\ last.op = "at_index"
    /\ last.before.type = "ARRAY"
    /\ size(last.before) = 2
    /\ last.index = 3
    /\ strict_type_check
    /\ strict_existance_check
    /\ last.ret.kind = "range_error"

\* what keyed access with an absent key is to do on a mutable object
CreatesOrRaises ==
    IF strict_existance_check
    THEN last.ret.kind = "parser_error" /\ node = last.before
    ELSE /\ node = [last.before EXCEPT !.properties =
                       Append(@, [first |-> last.key, second |-> jnode_t("NULL")])]
         /\ size(node) = size(last.before) + 1
         /\ last.ret = Ok(jnode_t("NULL"))

\* C10 as stated: keyed access with an absent key on an OBJECT creates a
\* NULL property at the end and returns it when strict existence checking
\* is off, and raises leaving the object unchanged when it is on.
C10_AbsentKey ==
    (last.op \in {"at_key", "at_key_const"} /\ last.before.type = "OBJECT"
        /\ Absent(last.before, last.key))
    => CreatesOrRaises

\* C10: on a mutable object keyed access with an absent key creates or
\* raises as stated; on a const object it creates nothing: it returns a
\* NULL node when strict existence checking is off and raises when it is on.
C10_AbsentKeyByOverload ==
    /\ (last.op = "at_key" /\ last.before.type = "OBJECT" /\ Absent(last.before, last.key))
       => CreatesOrRaises
    /\ (last.op = "at_key_const" /\ last.before.type = "OBJECT" /\ Absent(last.before, last.key))
       => /\ node = last.before
          /\ IF strict_existance_check
             THEN last.ret.kind = "parser_error"
             ELSE last.ret = Ok(jnode_t("NULL"))

C10_Witness ==
    /\ last.op = "at_key_const"
    /\ last.before.type = "OBJECT"
    /\ size(last.before) = 1
    /\ Absent(last.before, last.key)
    /\ ~strict_existance_check
    /\ last.ret = Ok(jnode_t("NULL"))
    /\ size(node) = 1

\* C11: with both strict flags off no scalar accessor and no keyed access
\* by string raises, whatever the node's type: a mismatch yields the
\* default value and a missing key a NULL node.
C11_LenientNeverRaises ==
    (~strict_type_check /\ ~strict_existance_check)
    => /\ (last.op = "as_number" /\ last.before.type # "NUMBER") => last.ret = Value(0)
       /\ (last.op = "as_bool" /\ last.before.type # "BOOLEAN") => last.ret = Value(FALSE)
       /\ (last.op = "as_string" /\ last.before.type # "STRING") => last.ret = Value(<<>>)
       /\ last.op \in {"as_number", "as_bool", "as_string"} => last.ret.kind = "ok"
       /\ (last.op \in {"at_key", "at_key_const"}
            /\ (last.before.type # "OBJECT" \/ Absent(last.before, last.key)))
          => (last.ret.kind = "ok" /\ last.ret.node.type = "NULL")

\* the lines of the nodes of a tree, parent first, children in order
RECURSIVE PreorderLines(_)
RECURSIVE PropertyLines(_, _)
RECURSIVE ElementLines(_, _)
PreorderLines(n) ==
    <<n.line_number>> \o PropertyLines(n.properties, 1) \o ElementLines(n.arr, 1)

PropertyLines(properties, i) ==
    IF i > Len(properties) THEN <<>>
    ELSE PreorderLines(properties[i].second) \o PropertyLines(properties, i + 1)

ElementLines(arr, i) ==
    IF i > Len(arr) THEN <<>>
    ELSE PreorderLines(arr[i]) \o ElementLines(arr, i + 1)

\* the number of line breaks in a text
RECURSIVE LineBreaks(_)
LineBreaks(text) ==
    IF Len(text) = 0 THEN 0
    ELSE (IF text[1] = NEWLINE THEN 1 ELSE 0) + LineBreaks(Tail(text))

\* lexeme i starts a value: it is no key, comment or punctuation
StartsValue(lexemes, i) ==
    /\ lexemes[i].k \in {"num", "lit", "str", "bare", "open_arr", "open_obj"}
    /\ ~(i < Len(lexemes) /\ lexemes[i + 1].k = "colon")

\* one plus the number of line breaks before lexeme i in the rendered text
SourceLine(lexemes, separator, i) ==
    1 + LineBreaks(IF i = 1 THEN <<>> ELSE Render(SubSeq(lexemes, 1, i - 1), separator) \o separator)

RECURSIVE ValueLines(_, _, _)
ValueLines(lexemes, separator, i) ==
    IF i > Len(lexemes) THEN <<>>
    ELSE (IF StartsValue(lexemes, i) THEN <<SourceLine(lexemes, separator, i)>> ELSE <<>>)
         \o ValueLines(lexemes, separator, i + 1)

\* C12: every node parse produces carries the 1-based source line on which
\* its first token starts: one plus the number of line breaks before it.
C12_LineAttribution ==
    (pc = "parsed" /\ root.kind = "ok"
        /\ Len(PreorderLines(root.node)) = Len(ValueLines(lex, sep, 1)))
    => PreorderLines(root.node) = ValueLines(lex, sep, 1)

\* C13: set_value on an OBJECT or ARRAY, add_property on a node that is no
\* OBJECT and add_element on a node that is no ARRAY raise a structural
\* error and leave the node as it was.
C13_RejectedMutation ==
    (\/ last.op = "set_value" /\ last.before.type \in {"OBJECT", "ARRAY"}
     \/ last.op = "add_property" /\ last.before.type # "OBJECT"
     \/ last.op = "add_element" /\ last.before.type # "ARRAY")
    => /\ last.ret.kind = "parser_error"
       /\ last.ret.line = last.before.line_number
       /\ node = last.before

C13_Witness ==
    /\ last.op = "set_value"
    /\ last.before.type = "OBJECT"
    /\ size(last.before) = 2
    /\ last.ret.kind = "parser_error"
    /\ node.value = <<>>

Emptied(n) ==
    /\ n.type = "ERROR"
    /\ n.properties = <<>>
    /\ n.arr = <<>>
    /\ size(n) = 0

\* C14 as stated: after clear() the node's type is ERROR, its value is
\* empty, it holds no properties and no elements and size() is 0, and all
\* of this stays so until the node is typed again.
C14_ClearedUntilRetyped ==
    cleared => (Emptied(node) /\ node.value = <<>>)

\* C14: clear() leaves type ERROR, an empty value, no properties, no
\* elements and size() 0; until the node is typed again the type, the
\* properties, the elements and the size stay so, while set_value may
\* store a value.
C14_ClearedKeepsNoChildren ==
    /\ last.op = "clear" => (Emptied(node) /\ node.value = <<>>)
    /\ cleared => Emptied(node)

C14_Witness ==
    /\ cleared
    /\ last.op = "set_value"
    /\ last.ret.kind = "ok"
    /\ node.type = "ERROR"
    /\ node.value = <<"7">>

\* C15: tokenize terminates on every text and never raises: every
\* iteration of the chunk loop and of the loop inside a chunk moves its
\* cursor forward, and the result is a token list whatever the text.
C15_TokenizeTerminates ==
    /\ [](tk.pc # "idle" => (tk.moved /\ ~tk.raised
                              /\ tk.index <= Len(tk.source) /\ tk.cindex <= Len(tk.chunk)))
    /\ [](tk.pc = "done" => tk.tokens = tokenize(tk.source))
    /\ <>(tk.pc = "done")

\* an unterminated string behind a sign, cut in two iterations
C15_Witness ==
    /\ tk.pc = "done"
    /\ tk.source = <<"-", DQUOTE, BACKSLASH>>
    /\ Len(tk.tokens) = 2

\* C16: parse builds one value from token 0 and looks at no token behind
\* it: with tokens appended to a complete value, the outcome (tree or
\* error) is the outcome for the value alone.
C16_TrailingTokensIgnored ==
    (pc # "start" /\ edit.kind = "append") => (root = ref /\ root.kind = "ok")

\* an array with a closing bracket too many has been parsed
C16_Witness ==
    /\ pc = "parsed"
    /\ edit.kind = "append"
    /\ root.kind = "ok"
    /\ root.node.type = "ARRAY"
    /\ root.output_index < Len(tokenize(Render(lex, sep)))
    /\ SubSeq(tokenize(Render(lex, sep)), 1, root.output_index) = tokenize(Render(doc, sep))

Line1 == <<"l", "i", "n", "e", "1">>

Line2 == <<"l", "i", "n", "e", "2">>

\* C17: the literal "line1\nline2", with a backslash and an n between the
\* lines, is read by as_string as two lines with a line break between
\* them, and written with replace_escape_characters set it comes out with
\* the same two-character escape and no line break.
C17_EscapeRoundTrip ==
    (node.type = "STRING" /\ node.value = Line1 \o <<BACKSLASH, "n">> \o Line2)
    => /\ last.op = "as_string" => last.ret = Value(Line1 \o <<NEWLINE>> \o Line2)
       /\ (last.op = "to_string" /\ replace_escape_characters)
            => /\ last.ret.value = <<string_delimiter_character>> \o Line1 \o <<BACKSLASH, "n">>
                                    \o Line2 \o <<string_delimiter_character>>
               /\ \A i \in 1..Len(last.ret.value) : last.ret.value[i] # NEWLINE

\* C18: a bool, a char, an integer or a string without quote and backslash
\* that is written into a property with operator<<, serialized with
\* to_string(false, 0), parsed and read with operator>> into a variable of
\* its type comes back equal.
C18_TypedRoundTrip ==
    /\ rt.pc = "parsed" => rt.in_root.kind = "ok"
    /\ rt.pc = "read" => rt.y = Value(rt.x)

RECURSIVE Concat(_)
Concat(seqs) == IF Len(seqs) = 0 THEN <<>> ELSE Head(seqs) \o Concat(Tail(seqs))

Holds(text, chr) == \E i \in 1..Len(text) : text[i] = chr

\* whether a value or a key of the tree holds a line break
RECURSIVE BearsNewline(_)
BearsNewline(n) ==
    \/ Holds(n.value, NEWLINE)
    \/ \E i \in 1..Len(n.properties) :
          Holds(n.properties[i].first, NEWLINE) \/ BearsNewline(n.properties[i].second)
    \/ \E i \in 1..Len(n.arr) : BearsNewline(n.arr[i])

LineBreak(p, width) == IF p THEN <<NEWLINE>> \o Spaces(width) ELSE <<>>

\* the text of element i of an array at the outermost level, with what
\* stands before it
ElementText(arr, i, p) ==
    (IF i > 1 THEN <<",", " ">> ELSE <<>>)
    \o LineBreak(p /\ arr[i].type \in {"OBJECT", "ARRAY"}, TabSize(p))
    \o to_string_d(arr[i], 2, p, TabSize(p))

\* C19: an ARRAY is written as an opening bracket, its elements with a
\* comma and a blank between them, and a closing bracket; a pretty text
\* breaks the line and indents before exactly the elements that are
\* OBJECTs or ARRAYs, and before the closing bracket exactly when the first
\* element is one; a compact text breaks no line.
C19_ArrayLayout ==
    (pc = "serialized" /\ root.node.type = "ARRAY")
    => /\ text_out = <<"[">>
                     \o Concat([i \in 1..Len(root.node.arr) |-> ElementText(root.node.arr, i, pretty)])
                     \o LineBreak(pretty /\ Len(root.node.arr) # 0
                                  /\ root.node.arr[1].type \in {"OBJECT", "ARRAY"}, 0)
                     \o <<"]">>
       /\ (~pretty /\ ~BearsNewline(root.node)) => ~Holds(text_out, NEWLINE)

\* a pretty text of an array that starts with a scalar and goes on with a
\* container: a line break before the container, none before the bracket
C19_Witness ==
    /\ pc = "serialized"
    /\ pretty
    /\ root.node.type = "ARRAY"
    /\ Len(root.node.arr) = 2
    /\ root.node.arr[1].type = "NUMBER"
    /\ root.node.arr[2].type = "OBJECT"
    /\ Holds(text_out, NEWLINE)
    /\ text_out[Len(text_out) - 1] = "}"

\* the text of entry i of an object at the outermost level, with what
\* stands around it
EntryText(properties, i, p) ==
    (IF p THEN Spaces(TabSize(p)) ELSE <<>>)
    \o <<string_delimiter_character>> \o properties[i].first \o <<string_delimiter_character>>
    \o <<":", " ">>
    \o to_string_d(properties[i].second, 2, p, TabSize(p))
    \o (IF i < Len(properties) THEN <<",">> ELSE <<>>)
    \o (IF p THEN <<NEWLINE>> ELSE <<>>)

\* C20: an OBJECT with n properties is written as an opening brace, the
\* entries in insertion order, each as quote, key, quote, colon, blank and
\* value, with a comma behind each entry but the last, and a closing brace;
\* lines are broken and indented only in a pretty text, so a compact text
\* is one line.
C20_ObjectLayout ==
    (pc = "serialized" /\ root.node.type = "OBJECT")
    => /\ text_out = <<"{">> \o (IF pretty THEN <<NEWLINE>> ELSE <<>>)
                     \o Concat([i \in 1..Len(root.node.properties) |->
                                   EntryText(root.node.properties, i, pretty)])
                     \o <<"}">>
       /\ (~pretty /\ ~BearsNewline(root.node)) => ~Holds(text_out, NEWLINE)

\* a compact text of an object with two properties
C20_Witness ==
    /\ pc = "serialized"
    /\ ~pretty
    /\ root.node.type = "OBJECT"
    /\ Len(root.node.properties) = 2
    /\ root.node.properties[2].second.type = "STRING"
    /\ text_out[Len(text_out) - 1] = string_delimiter_character

\* C21: parse reads the token vector only below its size, whatever the
\* text: no access tokens[i] in json_parse or skip_comments has i at or
\* behind tokens.size().
C21_ReadsInBounds == pc = "parsed" => (~root.oob /\ ~ref.oob)

\* the number of backslashes that stand in a row right before position i
RECURSIVE BackslashRun(_, _)
BackslashRun(source, i) ==
    IF CharAt(source, i - 1) = BACKSLASH THEN 1 + BackslashRun(source, i - 1) ELSE 0

\* the positions behind the opening quote at 0 that hold the same quote
\* after an even run of backslashes
Closers(source) ==
    {i \in 1..(Len(source) - 1) :
        CharAt(source, i) = CharAt(source, 0) /\ BackslashRun(source, i) % 2 = 0}

FirstCloser(source) == CHOOSE i \in Closers(source) : \A j \in Closers(source) : i <= j

\* C22: a quote equal to the opening quote ends the string exactly when an
\* even number of backslashes (none included) stands right before it,
\* however long the run: the scan of a text that opens with a quote stops
\* behind the first such quote, and the string token holds what stands
\* between the two.
C22_QuoteTermination ==
    (tk.pc = "done" /\ is_quote(CharAt(tk.source, 0)) /\ Closers(tk.source) # {})
    => /\ skip_quoted_string(tk.source, 0) = FirstCloser(tk.source) + 1
       /\ tk.tokens[1] = token_t(Substr(tk.source, 1, FirstCloser(tk.source) - 1), "STRING", 0)

\* the index of the token that closes the container opened before index,
\* depth containers deep; the size of the list when nothing closes it
RECURSIVE MatchingCloser(_, _, _)
MatchingCloser(tokens, index, depth) ==
    IF index >= Len(tokens) THEN Len(tokens)
    ELSE LET type == tokens[index + 1].type IN
         IF type \in {"CURLY_OPEN", "BRACKET_OPEN"} THEN MatchingCloser(tokens, index + 1, depth + 1)
         ELSE IF type \in {"CURLY_CLOSE", "BRACKET_CLOSE"}
              THEN IF depth = 1 THEN index ELSE MatchingCloser(tokens, index + 1, depth - 1)
         ELSE MatchingCloser(tokens, index + 1, depth)

\* the index of the last token of the value that starts at index, comments
\* before it passed over
LastTokenOf(tokens, index) ==
    LET first == skip_comments(tokens, index) IN
    IF first < Len(tokens) /\ tokens[first + 1].type \in {"CURLY_OPEN", "BRACKET_OPEN"}
    THEN MatchingCloser(tokens, first + 1, 1)
    ELSE first

ParsedTokens == tokenize(Render(lex, sep))

\* C23: json_parse reports, when it returns a node, the index one behind
\* the last token of the value it built: the scalar token, or the closing
\* token that matches the opener. Checked for the call at index 0 on every
\* text, and for a call at every later index on the texts as written and
\* with a block comment put in. Where a bracket stands as a key, openers
\* and closers cannot be counted and the closing token of the whole value
\* is the last token of the text.
C23_OutputIndex ==
    pc = "parsed"
    => /\ (root.kind = "ok" /\ ~root.oob /\ edit.kind \notin DOMAIN OddKeys)
            => root.output_index = LastTokenOf(ParsedTokens, 0) + 1
       /\ (root.kind = "ok" /\ ~root.oob /\ edit.kind \in DOMAIN OddKeys)
            => root.output_index = Len(ParsedTokens)
       /\ edit.kind \in {"none", "block_comment"}
            => \A i \in 1..(Len(ParsedTokens) - 1) :
            LET r == json_parse(ParsedTokens, i, jnode_t("NULL"), token_t(<<"?">>, "UNKNOWN", 0))
            IN  (r.kind = "ok" /\ ~r.oob) => r.output_index = LastTokenOf(ParsedTokens, i) + 1

\* an object that holds a container was parsed, a comment stands behind
\* it, and the index reported is the index of that comment
C23_Witness ==
    /\ pc = "parsed"
    /\ root.kind = "ok"
    /\ root.node.type = "OBJECT"
    /\ \E i \in 1..Len(root.node.properties) : root.node.properties[i].second.type = "ARRAY"
    /\ root.output_index = Len(ParsedTokens) - 1
    /\ ParsedTokens[root.output_index + 1].type = "COMMENT"

\* C24: a token at a value position (the top level, behind the colon of a
\* key, an array element) that is no opening brace or bracket, number,
\* string, boolean or null makes parse raise a parser_error that carries
\* the line of the node being built, and no tree is returned.
C24_MisfitValue ==
    (pc = "parsed" /\ edit.kind \in DOMAIN Misfits)
    => /\ root.kind = "parser_error"
       /\ root.what = "Cannot type the entry."
       /\ root.line = SourceLine(lex, sep, edit.pos)

\* a closing brace behind the colon of the second member of an object
\* written one token a line
C24_Witness ==
    /\ pc = "parsed"
    /\ edit.kind = "bad_close_obj"
    /\ sep = <<NEWLINE>>
    /\ edit.pos > 5
    /\ lex[edit.pos - 1].k = "colon"
    /\ root.kind = "parser_error"
    /\ root.line = edit.pos

\* the first position from i on that holds neither a digit nor a dot
RECURSIVE MantissaEnd(_, _)
MantissaEnd(text, i) ==
    IF i < Len(text) /\ (isdigit(CharAt(text, i)) \/ CharAt(text, i) = ".")
    THEN MantissaEnd(text, i + 1) ELSE i

\* an optional minus, one or more digits with at most one dot among them,
\* and an optional exponent: e or E, an optional sign, digits
IsNumberText(text) ==
    LET start == IF CharAt(text, 0) = "-" THEN 0 + 1 ELSE 0
        m     == MantissaEnd(text, start)
        signed == CharAt(text, m + 1) \in {"+", "-"}
        digits == IF signed THEN m + 2 ELSE m + 1
    IN  /\ \E i \in start..(m - 1) : isdigit(CharAt(text, i))
        /\ Cardinality({i \in start..(m - 1) : CharAt(text, i) = "."}) <= 1
        /\ \/ m = Len(text)
           \/ /\ CharAt(text, m) \in {"e", "E"}
              /\ \A i \in digits..(Len(text) - 1) : isdigit(CharAt(text, i))

\* C25: the text of every NUMBER token is an optional minus, one or more
\* digits with at most one dot, and an optional exponent of e or E, an
\* optional sign and digits.
C25_NumberForm ==
    tk.pc = "done"
    => \A n \in 1..Len(tk.tokens) :
          tk.tokens[n].type = "NUMBER" => IsNumberText(tk.tokens[n].value)

WordChars == {"a", "b", "e", "f", "l", "n", "r", "s", "t", "u", "V"}

\* a text that is one word of letters
IsWord(text) == Len(text) > 0 /\ \A i \in 1..Len(text) : text[i] \in WordChars

Literals ==
    { <<"t", "r", "u", "e">>, <<"f", "a", "l", "s", "e">>, <<"n", "u", "l", "l">> }

\* C26: true, false and null become a BOOLEAN or NULL token only as whole
\* words: a text that is one bare word yields one token that holds the
\* word, a literal token exactly when the word is one of the three.
C26_WholeWordLiterals ==
    (tk.pc = "done" /\ IsWord(tk.source))
    => /\ Len(tk.tokens) = 1
       /\ tk.tokens[1].value = tk.source
       /\ tk.tokens[1].type \in {"BOOLEAN", "NULL"} <=> tk.source \in Literals

\* C27: json_parse comes to an end on every token list, and every call
\* either returns a node or raises.
C27_ReturnsOrRaises == pc = "parsed" => root.kind \in {"ok", "parser_error"}

\* C28: the comma between two members is optional: a well-formed text
\* with any of the commas between two array elements or two object
\* members taken out parses without an error to the same tree.
C28_OptionalComma ==
    (pc = "parsed" /\ edit.kind \in {"drop_comma", "drop_commas"})
    => (root.kind = "ok" /\ ref.kind = "ok" /\ root.node = ref.node)

\* an object of two members, the second a container, parsed without the
\* comma between them
C28_Witness ==
    /\ pc = "parsed"
    /\ edit.kind = "drop_comma"
    /\ root.kind = "ok"
    /\ root.node.type = "OBJECT"
    /\ Len(root.node.properties) = 2
    /\ Len(tokenize(Render(lex, sep))) + 1 = Len(tokenize(Render(doc, sep)))

\* whether some object of the tree holds the key
RECURSIVE HoldsKey(_, _)
HoldsKey(n, key) ==
    \/ \E i \in 1..Len(n.properties) :
          n.properties[i].first = key \/ HoldsKey(n.properties[i].second, key)
    \/ \E i \in 1..Len(n.arr) : HoldsKey(n.arr[i], key)

\* no key is written twice, so that no property replaces another
DistinctKeys(lexemes) ==
    \A p, q \in KeyPositions(lexemes) : lexemes[p].t = lexemes[q].t => p = q

\* the document with the token at the key position written as a string
Quoted(lexemes, p) == [lexemes EXCEPT ![p] = Str(lexemes[p].t, SQUOTE)]

\* C29: in an object the token at a key position is taken as the key
\* whatever its kind (number, boolean, null, opening brace or bracket,
\* comma), its text is the property's key, and with a colon behind it no
\* error is raised: the tree is the one of the same text with that token
\* written as a string.
C29_AnyTokenIsKey ==
    (pc = "parsed" /\ edit.kind \in DOMAIN OddKeys)
    => /\ root.kind = "ok"
       /\ DistinctKeys(lex) => HoldsKey(root.node, OddKeys[edit.kind].t)
       /\ root.node = parse(Render(Quoted(lex, edit.pos), sep), token_t(<<"?">>, "UNKNOWN", 0)).node

\* an opening bracket as the key of the second member of an object
C29_Witness ==
    /\ pc = "parsed"
    /\ edit.kind = "key_open_arr"
    /\ root.kind = "ok"
    /\ root.node.type = "OBJECT"
    /\ Len(root.node.properties) = 2
    /\ root.node.properties[2].first = <<"[">>
    /\ DistinctKeys(lex)

====
